---- MODULE Spec2Model ----
(***************************************************************************)
(* Model of the native MfaSrv agents (markoz2707/MFA-SRV):                 *)
(*   - MfaSrv.DcAgent.Native: the LSA package's named-pipe client          *)
(*     (QueryDcAgent / ConnectToPipe / SendAndReceive), hosted in LSASS;   *)
(*   - MfaSrv.EndpointAgent.Native: the credential provider's credential   *)
(*     (MfaSrvCredential) and its pipe client and JSON codec, hosted in    *)
(*     LogonUI.                                                            *)
(* C strings are sequences of one-character strings; NUL is the character  *)
(* "NUL".  Blocking system calls (CreateFile/WaitNamedPipe, WriteFile,     *)
(* ReadFile) are the points where a call is split into steps.              *)
(***************************************************************************)
EXTENDS Integers, Sequences, FiniteSets, TLC

(***************************************************************************)
(* Characters                                                              *)
(***************************************************************************)
NUL == "NUL"
QUOTE == "\""
BSLASH == "\\"
LF == "\n"
CR == "\r"
TAB == "\t"

\* printable ASCII, code 32 .. 126, in code order
Printable ==
  <<" ", "!", "\"", "#", "$", "%", "&", "'", "(", ")", "*", "+", ",", "-", ".", "/",
    "0", "1", "2", "3", "4", "5", "6", "7", "8", "9", ":", ";", "<", "=", ">", "?",
    "@", "A", "B", "C", "D", "E", "F", "G", "H", "I", "J", "K", "L", "M", "N", "O",
    "P", "Q", "R", "S", "T", "U", "V", "W", "X", "Y", "Z", "[", "\\", "]", "^", "_",
    "GRAVE", "a", "b", "c", "d", "e", "f", "g", "h", "i", "j", "k", "l", "m", "n", "o",
    "p", "q", "r", "s", "t", "u", "v", "w", "x", "y", "z", "{", "|", "}", "~">>

\* the value of a char as the C code computes with it (json[i] - '0')
CharCode(c) ==
  IF c = NUL THEN 0
  ELSE IF c = TAB THEN 9
  ELSE IF c = LF THEN 10
  ELSE IF c = CR THEN 13
  ELSE 31 + (CHOOSE i \in 1..Len(Printable) : Printable[i] = c)

\* tolower() as _strnicmp applies it
ToLower(c) ==
  LET k == CharCode(c) IN
  IF k >= 65 /\ k <= 90 THEN Printable[k + 32 - 31] ELSE c

\* buf[i] of a C buffer (0-based); bytes past the stored ones read as NUL
At(buf, i) == IF i >= 0 /\ i < Len(buf) THEN buf[i + 1] ELSE NUL

\* 0-based index of the first NUL at or after i; Len(buf) when there is none
FirstNul(buf, i) ==
  IF \A k \in (i + 1)..Len(buf) : buf[k] # NUL THEN Len(buf)
  ELSE (CHOOSE k \in (i + 1)..Len(buf) :
          buf[k] = NUL /\ \A j \in (i + 1)..(k - 1) : buf[j] # NUL) - 1

\* the C string held in a buffer: the bytes before the first NUL
CStr(buf) == SubSeq(buf, 1, FirstNul(buf, 0))

\* s occurs in t at 0-based offset i
OccursAt(s, t, i) ==
  /\ i + Len(s) <= Len(t)
  /\ \A k \in 1..Len(s) : t[i + k] = s[k]

Contains(t, s) == \E i \in 0..Len(t) : OccursAt(s, t, i)

(***************************************************************************)
(* Bounds and program constants                                            *)
(***************************************************************************)
PIPE_BUFFER_SIZE == 4096
MFASRV_PIPE_TIMEOUT == 3000
MFASRV_PIPE_TIMEOUT_MS == 3000
ConnectPollMs == 500

MFASRV_DECISION_ALLOW == 0
MFASRV_DECISION_REQUIRE_MFA == 1
MFASRV_DECISION_DENY == 2
MFASRV_DECISION_PENDING == 3

\* granularity of the clock while a call is blocked in WriteFile / ReadFile
TickMs == 1500

(***************************************************************************)
(* DC agent: BuildQueryJson, ParseDecisionFromJson                         *)
(***************************************************************************)
K_userName == <<"u", "s", "e", "r", "N", "a", "m", "e">>
K_domain == <<"d", "o", "m", "a", "i", "n">>
K_sourceIp == <<"s", "o", "u", "r", "c", "e", "I", "p">>
K_workstation == <<"w", "o", "r", "k", "s", "t", "a", "t", "i", "o", "n">>
K_protocol == <<"p", "r", "o", "t", "o", "c", "o", "l">>
K_decision == <<"d", "e", "c", "i", "s", "i", "o", "n">>

\* "%d" of a protocol code 0..9
FormatDigit(n) == <<Printable[n + 48 - 31]>>

\* the text _snprintf_s would produce with an unbounded buffer
QueryText(userName, domain, sourceIp, workstation, authProtocol) ==
  <<"{">> \o <<QUOTE>> \o K_userName \o <<QUOTE, ":", QUOTE>> \o userName \o <<QUOTE, ",">>
          \o <<QUOTE>> \o K_domain \o <<QUOTE, ":", QUOTE>> \o domain \o <<QUOTE, ",">>
          \o <<QUOTE>> \o K_sourceIp \o <<QUOTE, ":", QUOTE>> \o sourceIp \o <<QUOTE, ",">>
          \o <<QUOTE>> \o K_workstation \o <<QUOTE, ":", QUOTE>> \o workstation \o <<QUOTE, ",">>
          \o <<QUOTE>> \o K_protocol \o <<QUOTE, ":">> \o FormatDigit(authProtocol)
          \o <<"}">>

\* a formatter that reports the characters it kept when the text does not fit
\* (BuildQueryJsonCount); BuildQueryJson: [len |-> return value, buf |-> C string left in the buffer]
\* _snprintf_s(.., _TRUNCATE) returns -1 and keeps bufferSize-1 chars when
\* the text does not fit
BuildQueryJsonCount(bufferSize, userName, domain, sourceIp, workstation, authProtocol) ==
  LET text == QueryText(userName, domain, sourceIp, workstation, authProtocol) IN
  IF Len(text) <= bufferSize - 1
  THEN [len |-> Len(text), buf |-> text]
  ELSE [len |-> bufferSize - 1, buf |-> SubSeq(text, 1, bufferSize - 1)]

BuildQueryJson(bufferSize, userName, domain, sourceIp, workstation, authProtocol) ==
  LET text == QueryText(userName, domain, sourceIp, workstation, authProtocol) IN
  IF Len(text) <= bufferSize - 1
  THEN [len |-> Len(text), buf |-> text]
  ELSE [len |-> -1, buf |-> SubSeq(text, 1, bufferSize - 1)]

\* const char* key = "\"decision\":"  (11 characters, then the terminator)
DecisionKey == <<QUOTE>> \o K_decision \o <<QUOTE, ":">>
\* const int keyLen = 12
DecisionKeyLen == 12

\* _strnicmp(&json[i], key, n) == 0 : case-insensitive, at most n chars,
\* stops at the terminator
RECURSIVE StrNICmpEq(_, _, _, _, _)
StrNICmpEq(json, i, key, n, k) ==
  IF k >= n THEN TRUE
  ELSE LET a == ToLower(At(json, i + k))
           b == ToLower(At(key, k))
       IN IF a # b THEN FALSE
          ELSE IF a = NUL THEN TRUE
          ELSE StrNICmpEq(json, i, key, n, k + 1)

\* the scan without the range check on the digit
RECURSIVE ParseDecisionLoopUnchecked(_, _, _)
ParseDecisionLoopUnchecked(json, jsonLen, i) ==
  IF ~(i < jsonLen - DecisionKeyLen) THEN MFASRV_DECISION_ALLOW
  ELSE IF At(json, i) = QUOTE /\ StrNICmpEq(json, i, DecisionKey, DecisionKeyLen, 0)
       THEN CharCode(At(json, i + DecisionKeyLen)) - CharCode("0")
       ELSE ParseDecisionLoopUnchecked(json, jsonLen, i + 1)

RECURSIVE ParseDecisionLoop(_, _, _)
ParseDecisionLoop(json, jsonLen, i) ==
  IF ~(i < jsonLen - DecisionKeyLen) THEN MFASRV_DECISION_ALLOW
  ELSE IF At(json, i) = QUOTE /\ StrNICmpEq(json, i, DecisionKey, DecisionKeyLen, 0)
       THEN LET value == CharCode(At(json, i + DecisionKeyLen)) - CharCode("0") IN
            IF value >= 0 /\ value <= 3 THEN value
            ELSE ParseDecisionLoop(json, jsonLen, i + 1)
       ELSE ParseDecisionLoop(json, jsonLen, i + 1)

ParseDecisionFromJson(json, jsonLen) == ParseDecisionLoop(json, jsonLen, 0)

(***************************************************************************)
(* Endpoint agent: pipe read loop and JSON codec (NamedPipeClient.cpp)     *)
(***************************************************************************)
RECURSIVE Zeros(_)
Zeros(n) == IF n <= 0 THEN <<>> ELSE <<NUL>> \o Zeros(n - 1)

\* pszBuf[i] = c on a buffer whose unwritten bytes are zero
Put(buf, i, c) ==
  IF i < Len(buf)
  THEN SubSeq(buf, 1, i) \o <<c>> \o SubSeq(buf, i + 2, Len(buf))
  ELSE buf \o Zeros(i - Len(buf)) \o <<c>>

\* the body of the for loop of JsonAppendRaw on character c; b is
\* [buf |-> pszBuf, pos |-> pos]
JsonAppendRawStep(b, c) == [buf |-> Put(b.buf, b.pos, c), pos |-> b.pos + 1]

\* the for loop of JsonAppendRaw over characters lo..hi of raw, in order:
\* the loop is left as soon as pos < cbBuf - 1 fails
RECURSIVE JsonAppendRawLoop(_, _, _, _, _)
JsonAppendRawLoop(b, cbBuf, raw, lo, hi) ==
  IF lo > hi \/ ~(b.pos < cbBuf - 1) THEN b
  ELSE IF lo = hi THEN JsonAppendRawStep(b, raw[lo])
  ELSE LET mid == (lo + hi) \div 2
       IN JsonAppendRawLoop(JsonAppendRawLoop(b, cbBuf, raw, lo, mid), cbBuf, raw, mid + 1, hi)

\* JsonAppendRaw(pszBuf, cbBuf, piPos, pszRaw): the buffer and *piPos after it
JsonAppendRaw(b, cbBuf, raw) ==
  LET e == JsonAppendRawLoop(b, cbBuf, raw, 1, Len(raw))
  IN [buf |-> Put(e.buf, e.pos, NUL), pos |-> e.pos]

EscapeLetter(c) ==
  CASE c = QUOTE -> QUOTE
    [] c = BSLASH -> BSLASH
    [] c = LF -> "n"
    [] c = CR -> "r"
    [] c = TAB -> "t"
    [] OTHER -> c

NeedsEscape(c) == c \in {QUOTE, BSLASH, LF, CR, TAB}

\* the switch in the for loop of JsonAppendEscaped on character c
JsonAppendEscapedStep(b, cbBuf, c) ==
  IF NeedsEscape(c)
  THEN IF b.pos < cbBuf - 3
       THEN [buf |-> Put(Put(b.buf, b.pos, BSLASH), b.pos + 1, EscapeLetter(c)),
             pos |-> b.pos + 2]
       ELSE b
  ELSE [buf |-> Put(b.buf, b.pos, c), pos |-> b.pos + 1]

\* the for loop of JsonAppendEscaped over characters lo..hi of value, in
\* order: the loop is left as soon as pos < cbBuf - 2 fails
RECURSIVE JsonAppendEscapedLoop(_, _, _, _, _)
JsonAppendEscapedLoop(b, cbBuf, value, lo, hi) ==
  IF lo > hi \/ ~(b.pos < cbBuf - 2) THEN b
  ELSE IF lo = hi THEN JsonAppendEscapedStep(b, cbBuf, value[lo])
  ELSE LET mid == (lo + hi) \div 2
       IN JsonAppendEscapedLoop(JsonAppendEscapedLoop(b, cbBuf, value, lo, mid),
                                cbBuf, value, mid + 1, hi)

\* an encoder that takes the buffer for three bytes longer than it is
JsonAppendEscapedPastEnd(b, cbBuf, value) ==
  LET e == JsonAppendEscapedLoop(b, cbBuf + 3, value, 1, Len(value))
  IN [buf |-> Put(e.buf, e.pos, NUL), pos |-> e.pos]

JsonAppendEscaped(b, cbBuf, value) ==
  LET e == JsonAppendEscapedLoop(b, cbBuf, value, 1, Len(value))
  IN [buf |-> Put(e.buf, e.pos, NUL), pos |-> e.pos]

\* the search pattern of JsonGetString: "key":" or "key": "
JsonPattern(key, spaced) ==
  <<QUOTE>> \o SubSeq(key, 1, IF spaced THEN (IF Len(key) < 247 THEN Len(key) ELSE 247)
                                        ELSE (IF Len(key) < 249 THEN Len(key) ELSE 249))
            \o (IF spaced THEN <<QUOTE, ":", " ", QUOTE>> ELSE <<QUOTE, ":", QUOTE>>)

\* for (p = pszJson; *p; p++): offset just past the first match, -1 if none
JsonFind(json, pattern, p) ==
  LET bMatch(q) == \A i \in 0..(Len(pattern) - 1) : At(json, q + i) = pattern[i + 1]
  IN IF \A q \in p..(Len(json) - 1) : ~bMatch(q) THEN -1
     ELSE (CHOOSE q \in p..(Len(json) - 1) : bMatch(q) /\ \A r \in p..(q - 1) : ~bMatch(r))
          + Len(pattern)

\* an extraction that copies the character after a backslash as it is
UnescapeVerbatim(c) == c

Unescape(c) ==
  CASE c = "n" -> LF
    [] c = "r" -> CR
    [] c = "t" -> TAB
    [] OTHER -> c

\* the extraction loop of JsonGetString
RECURSIVE JsonExtract(_, _, _, _)
JsonExtract(json, p, out, cchOut) ==
  IF At(json, p) = NUL \/ ~(Len(out) < cchOut - 1) THEN out
  ELSE IF At(json, p) = BSLASH /\ At(json, p + 1) # NUL
       THEN JsonExtract(json, p + 2, Append(out, Unescape(At(json, p + 1))), cchOut)
       ELSE IF At(json, p) = QUOTE THEN out
       ELSE JsonExtract(json, p + 1, Append(out, At(json, p)), cchOut)

\* JsonGetString(pszJson, pszKey, pszOut, cchOut):
\*   [ret |-> the BOOL returned, out |-> the C string left in pszOut]
\* pszJson is a C string (no NUL inside); old is pszOut on entry
JsonGetString(json, key, old, cchOut) ==
  IF cchOut = 0 THEN [ret |-> FALSE, out |-> old]
  ELSE LET f1 == JsonFind(json, JsonPattern(key, FALSE), 0)
           f2 == JsonFind(json, JsonPattern(key, TRUE), 0)
           pFound == IF f1 # -1 THEN f1 ELSE f2
       IN IF pFound = -1 THEN [ret |-> FALSE, out |-> <<>>]
          ELSE LET out == JsonExtract(json, pFound, <<>>, cchOut)
               IN [ret |-> Len(out) > 0, out |-> out]

\* MfaPipeRead(hPipe, pszBuffer, cbBuffer, pcbRead) on a pipe whose
\* successive ReadFile calls behave as `reads` says: each element is
\* [data |-> bytes delivered, res |-> "ok" | "more" | "error"]
\*   [hr |-> "S_OK" | "WIN32", buf |-> bytes in pszBuffer, cbRead |-> *pcbRead]
RECURSIVE MfaPipeReadLoop(_, _, _, _)
MfaPipeReadLoop(buf, cbBuffer, reads, k) ==
  IF ~(Len(buf) < cbBuffer - 1) \/ k > Len(reads)
  THEN [hr |-> "S_OK", buf |-> buf, cbRead |-> Len(buf)]
  ELSE LET room == cbBuffer - 1 - Len(buf)
           got == SubSeq(reads[k].data, 1,
                         IF Len(reads[k].data) < room THEN Len(reads[k].data) ELSE room)
           buf2 == buf \o got
       IN IF reads[k].res = "ok" THEN [hr |-> "S_OK", buf |-> buf2, cbRead |-> Len(buf2)]
          ELSE IF reads[k].res = "more" THEN MfaPipeReadLoop(buf2, cbBuffer, reads, k + 1)
          ELSE [hr |-> "WIN32", buf |-> buf2, cbRead |-> Len(buf2)]

MfaPipeRead(cbBuffer, reads) == MfaPipeReadLoop(<<>>, cbBuffer, reads, 1)

(***************************************************************************)
(* Inputs of the DC agent                                                  *)
(***************************************************************************)
\* user and domain names handed to QueryDcAgent
DcUserNames == { <<"j">>, <<"a", QUOTE>> }
\* DownlevelName of PrimaryCredentials, as MfaSrv_LogonUserEx2 finds it
LogonUserNames == DcUserNames \cup {<<>>}
DcDomainNames == { <<"C">> }
DcTimeouts == { MFASRV_PIPE_TIMEOUT, 1200 }
PROTO_AUTH_KERBEROS == 1

\* a flat message {"decision":N}
DecisionMsg(n) == <<"{", QUOTE>> \o K_decision \o <<QUOTE, ":">> \o n \o <<"}">>

\* what the peer may write as the answer
DcResponses ==
  { DecisionMsg(<<"0">>), DecisionMsg(<<"1">>), DecisionMsg(<<"2">>), DecisionMsg(<<"3">>),
    DecisionMsg(<<"7">>),                        \* unrecognised code
    DecisionMsg(<<" ", "2">>),                   \* space after the colon
    DecisionMsg(<<NUL, "2">>),                   \* a NUL byte after the colon
    DecisionMsg(<<NUL, "1">>),
    DecisionMsg(<<NUL, "7">>),                   \* the same with an unrecognised code
    <<"{", QUOTE, "D", "E", "C", "I", "S", "I", "O", "N", QUOTE, ":", NUL, "3", "}">>,
    <<"{", "}">>,                                \* no decision field
    <<>> }                                       \* empty message

(***************************************************************************)
(* Endpoint agent: messages of _PerformMfaCheck (MfaSrvCredential.cpp)     *)
(***************************************************************************)
K_type == <<"t", "y", "p", "e">>
K_status == <<"s", "t", "a", "t", "u", "s">>
K_challengeId == <<"c", "h", "a", "l", "l", "e", "n", "g", "e", "I", "d">>
K_response == <<"r", "e", "s", "p", "o", "n", "s", "e">>
W_preauth == <<"p", "r", "e", "a", "u", "t", "h">>
W_submit_mfa == <<"s", "u", "b", "m", "i", "t", "_", "m", "f", "a">>
W_approved == <<"a", "p", "p", "r", "o", "v", "e", "d">>
W_denied == <<"d", "e", "n", "i", "e", "d">>
W_mfa_required == <<"m", "f", "a", "_", "r", "e", "q", "u", "i", "r", "e", "d">>

CB_szJson == 2048
CB_szResponse == 4096
CB_szStatus == 64
CB_szChallengeId == 256
CB_szUsername == 512
CB_szUser == 256
CB_szDomain == 256
CB_szOtp == 128

\* WideToUtf8 on text of the ASCII range: one byte per character plus the
\* terminator; WideCharToMultiByte fails (0, empty output) when it does not fit
WideToUtf8(pwsz, cbOut) == IF Len(pwsz) + 1 <= cbOut THEN pwsz ELSE <<>>

\* StringCchCopyA / StringCchCopyW: at most cch-1 characters are kept
StringCchCopy(cch, src) == SubSeq(src, 1, IF Len(src) < cch - 1 THEN Len(src) ELSE cch - 1)

\* for (p = szUsername; *p; p++) if (*p == '\\') break: the offset of the
\* first backslash at or after i, -1 if there is none
FirstBackslash(sz, i) ==
  IF \A k \in (i + 1)..Len(sz) : sz[k] # BSLASH THEN -1
  ELSE (CHOOSE k \in (i + 1)..Len(sz) :
          sz[k] = BSLASH /\ \A j \in (i + 1)..(k - 1) : sz[j] # BSLASH) - 1

\* "Parse domain\user if present": [szDomain, szUser]
ParseDomainUser(szUsername) ==
  LET domLen == FirstBackslash(szUsername, 0) IN
  IF domLen # -1
  THEN [szDomain |-> IF domLen > 0 /\ domLen < CB_szDomain
                     THEN SubSeq(szUsername, 1, domLen) ELSE <<>>,
        szUser |-> StringCchCopy(CB_szUser, SubSeq(szUsername, domLen + 2, Len(szUsername)))]
  ELSE [szDomain |-> <<".">>,
        szUser |-> StringCchCopy(CB_szUser, szUsername)]

EmptyBuf == [buf |-> <<>>, pos |-> 0]

\* the bytes MfaPipeSend is given: szJson[0 .. pos-1]
Message(b) == SubSeq(b.buf, 1, b.pos)

\* "Build PreAuth JSON message"
BuildPreauthJson(wszUsername_, szWorkstation) ==
  LET du == ParseDomainUser(WideToUtf8(wszUsername_, CB_szUsername))
      b1 == JsonAppendRaw(EmptyBuf, CB_szJson,
              <<"{", QUOTE>> \o K_type \o <<QUOTE, ":", QUOTE>> \o W_preauth
                \o <<QUOTE, ",", QUOTE>> \o K_userName \o <<QUOTE, ":", QUOTE>>)
      b2 == JsonAppendEscaped(b1, CB_szJson, du.szUser)
      b3 == JsonAppendRaw(b2, CB_szJson,
              <<QUOTE, ",", QUOTE>> \o K_domain \o <<QUOTE, ":", QUOTE>>)
      b4 == JsonAppendEscaped(b3, CB_szJson, du.szDomain)
      b5 == JsonAppendRaw(b4, CB_szJson,
              <<QUOTE, ",", QUOTE>> \o K_workstation \o <<QUOTE, ":", QUOTE>>)
      b6 == JsonAppendEscaped(b5, CB_szJson, szWorkstation)
  IN JsonAppendRaw(b6, CB_szJson, <<QUOTE, "}">>)

\* a submit_mfa builder that copies the challenge identifier without escaping it
BuildSubmitJsonUnescaped(szChallengeId_, wszOtp_) ==
  LET szOtp == WideToUtf8(wszOtp_, CB_szOtp)
      b1 == JsonAppendRaw(EmptyBuf, CB_szJson,
              <<"{", QUOTE>> \o K_type \o <<QUOTE, ":", QUOTE>> \o W_submit_mfa
                \o <<QUOTE, ",", QUOTE>> \o K_challengeId \o <<QUOTE, ":", QUOTE>>)
      b2 == JsonAppendRaw(b1, CB_szJson, szChallengeId_)
      b3 == JsonAppendRaw(b2, CB_szJson,
              <<QUOTE, ",", QUOTE>> \o K_response \o <<QUOTE, ":", QUOTE>>)
      b4 == JsonAppendEscaped(b3, CB_szJson, szOtp)
  IN JsonAppendRaw(b4, CB_szJson, <<QUOTE, "}">>)

\* "Build submit_mfa JSON"
BuildSubmitJson(szChallengeId_, wszOtp_) ==
  LET szOtp == WideToUtf8(wszOtp_, CB_szOtp)
      b1 == JsonAppendRaw(EmptyBuf, CB_szJson,
              <<"{", QUOTE>> \o K_type \o <<QUOTE, ":", QUOTE>> \o W_submit_mfa
                \o <<QUOTE, ",", QUOTE>> \o K_challengeId \o <<QUOTE, ":", QUOTE>>)
      b2 == JsonAppendEscaped(b1, CB_szJson, szChallengeId_)
      b3 == JsonAppendRaw(b2, CB_szJson,
              <<QUOTE, ",", QUOTE>> \o K_response \o <<QUOTE, ":", QUOTE>>)
      b4 == JsonAppendEscaped(b3, CB_szJson, szOtp)
  IN JsonAppendRaw(b4, CB_szJson, <<QUOTE, "}">>)

\* MfaPipeSend: the HRESULT for what WriteFile did
MfaPipeSend(written) ==
  CASE written = "all" -> "S_OK"
    [] written = "part" -> "E_FAIL"
    [] OTHER -> "WIN32"

\* a reading of the preauth status that takes whatever is neither an
\* approval nor a denial as mfa_required
PreauthStatusKindElseRequired(szStatus) ==
  CASE At(szStatus, 0) = "a" -> "approved"
    [] At(szStatus, 0) = "d" -> "denied"
    [] OTHER -> "mfa_required"

\* how _PerformMfaCheck reads szStatus of the preauth answer:
\* "none" (empty), "approved", "denied", "mfa_required" or "unknown"
PreauthStatusKind(szStatus) ==
  CASE At(szStatus, 0) = NUL -> "none"
    [] At(szStatus, 0) = "a" -> "approved"
    [] At(szStatus, 0) = "d" -> "denied"
    [] At(szStatus, 0) = "m" -> "mfa_required"
    [] OTHER -> "unknown"

\* a reading of the submit_mfa status that takes whatever is not a denial
\* as an approval
SubmitStatusKindElseApproved(szStatus) ==
  CASE At(szStatus, 0) = "d" -> "denied"
    [] OTHER -> "approved"

\* how _PerformMfaCheck reads szStatus of the submit_mfa answer
SubmitStatusKind(szStatus) ==
  CASE At(szStatus, 0) = "a" -> "approved"
    [] At(szStatus, 0) = "d" -> "denied"
    [] OTHER -> "unknown"

\* a test that never sees the OTP the credential holds
HasOtpNever(wszOtp_) == FALSE

\* _wszOtp[0] != L'\0': "If we already have an OTP, submit it now"
HasOtp(wszOtp_) == wszOtp_ # <<>>

SUCCEEDED(hr) == hr \in {"S_OK", "S_FALSE"}
FAILED(hr) == ~SUCCEEDED(hr)

(***************************************************************************)
(* Inputs of the endpoint agent                                            *)
(***************************************************************************)
\* what the user can type into the tile
UserNames == { <<>>, <<"u">>, <<"D", BSLASH, "u">> }
Passwords == { <<>>, <<"p">> }
Otps == { <<>>, <<"1", "2">> }
ComputerName == <<"W">>

\* challenge identifiers the service issues, and how it writes them
PeerChallengeIds == { <<"c", "1">>, <<"k", QUOTE>> }
RECURSIVE PeerEscape(_)
PeerEscape(v) ==
  IF v = <<>> THEN <<>>
  ELSE (IF Head(v) \in {QUOTE, BSLASH} THEN <<BSLASH, Head(v)>> ELSE <<Head(v)>>)
       \o PeerEscape(Tail(v))

StatusMsg(status) ==
  <<"{", QUOTE>> \o K_status \o <<QUOTE, ":", QUOTE>> \o status \o <<QUOTE, "}">>
ChallengeMsg(status, cid) ==
  <<"{", QUOTE>> \o K_status \o <<QUOTE, ":", QUOTE>> \o status \o <<QUOTE, ",", QUOTE>>
    \o K_challengeId \o <<QUOTE, ":", QUOTE>> \o PeerEscape(cid) \o <<QUOTE, "}">>

\* status words outside the vocabulary of the protocol
OtherStatuses ==
  { <<"e", "r", "r", "o", "r">>,
    <<"a", "b", "o", "r", "t", "e", "d">>,
    <<"d", "i", "s", "a", "b", "l", "e", "d">>,
    <<"m", "i", "s", "s", "i", "n", "g">> }

\* what the peer may write as an answer
CredResponses ==
  { StatusMsg(W_approved), StatusMsg(W_denied), StatusMsg(W_mfa_required) }
  \cup { ChallengeMsg(W_mfa_required, c) : c \in PeerChallengeIds }
  \cup { StatusMsg(w) : w \in OtherStatuses }
  \cup { <<"{", "}">>,                                        \* no status field
         StatusMsg(<<>>),                                    \* empty status
         <<"{", QUOTE>> \o K_status \o <<QUOTE, ":", " ", QUOTE>> \o W_approved \o <<QUOTE, "}">>,
         <<"{", QUOTE>> \o K_status \o <<QUOTE, ":", QUOTE>> \o W_denied \o <<QUOTE>>,  \* cut short
         <<"{", QUOTE>> \o K_status \o <<QUOTE, ":">> }     \* cut before the value

\* n times the character c
RECURSIVE Rep(_, _)
Rep(c, n) ==
  IF n <= 0 THEN <<>>
  ELSE IF n % 2 = 0 THEN LET h == Rep(c, n \div 2) IN h \o h
  ELSE <<c>> \o Rep(c, n - 1)

\* an mfa_required answer that carries one more field and is longer than szResponse
\* a user name that alone fills the query buffer of QueryDcAgent
DcLongUserName == Rep("x", PIPE_BUFFER_SIZE)

\* the longest messages _PerformMfaCheck can build: every character of a full
\* _wszUsername, _szChallengeId and _wszOtp needs an escape
LongestPreauthJson == BuildPreauthJson(Rep(QUOTE, 255), Rep("W", 15))
LongestSubmitJson == BuildSubmitJson(Rep(QUOTE, CB_szChallengeId - 1), Rep(QUOTE, 63))

LongChallengeMsg ==
  <<"{", QUOTE>> \o K_status \o <<QUOTE, ":", QUOTE>> \o W_mfa_required \o <<QUOTE, ",", QUOTE>>
    \o K_challengeId \o <<QUOTE, ":", QUOTE, "c", "1", QUOTE, ",", QUOTE>>
    \o <<"i", "n", "f", "o", QUOTE, ":", QUOTE>> \o Rep("x", CB_szResponse) \o <<QUOTE, "}">>

\* what the peer writes while the client waits in MfaPipeRead: one message,
\* or nothing (the pipe breaks)
PeerWrites ==
  { <<r>> : r \in CredResponses \cup {LongChallengeMsg} } \cup { <<>> }

\* what is left in the pipe of the messages `peer` after the receives `recv`:
\* a receive takes bytes of the oldest message only
RECURSIVE Unread(_, _)
Unread(peer, recv) ==
  IF recv = <<>> \/ peer = <<>> THEN peer
  ELSE LET n == Len(Head(recv))
           m == Head(peer)
       IN IF n < Len(m)
          THEN Unread(<<SubSeq(m, n + 1, Len(m))>> \o Tail(peer), Tail(recv))
          ELSE Unread(Tail(peer), Tail(recv))

\* how the ReadFile calls of one MfaPipeRead go on a pipe holding `inbox`:
\* in message mode a message longer than the room asked for is delivered
\* in part with ERROR_MORE_DATA, in byte mode with success
ReadScript(inbox, cbBuffer, mode) ==
  IF inbox = <<>> THEN <<[data |-> <<>>, res |-> "error"]>>
  ELSE LET m == Head(inbox)
       IN <<[data |-> m,
             res |-> IF Len(m) <= cbBuffer - 1 \/ mode = "byte" THEN "ok" ELSE "more"]>>

(***************************************************************************)
(* State                                                                   *)
(***************************************************************************)
VARIABLES
  host,          \* the process this behaviour is of: "lsass" or "logonui"
  elapsed,       \* ms the current call, or the last one, has taken so far
  dcPc,          \* position of QueryDcAgent: idle, connect, send, recv, done
  dcTimeoutMs,   \* QueryDcAgent's timeoutMs
  dcUserName,    \* QueryDcAgent's userName
  dcDomain,      \* QueryDcAgent's domain
  dcPipe,        \* the handle ConnectToPipe obtained: none, open, closed
  dcSent,        \* bytes WriteFile put on the pipe in this call
  dcResponse,    \* bytes ReadFile stored in responseBuffer
  dcIo,          \* how the call went: none, build, connect, busy, write, read, fault, ok
  dcDecision,    \* value QueryDcAgent returned (-1 while it has not)
  ntStatus,      \* what MfaSrv_LogonUserEx2 returned: none, pending (it is running),
                 \* STATUS_LOGON_FAILURE, STATUS_NOT_IMPLEMENTED
  subStatus,     \* *SubStatus of MfaSrv_LogonUserEx2: none, NULL (no pointer given),
                 \* unset (the caller's value), STATUS_ACCOUNT_RESTRICTION
  codec,         \* a round through the JSON codec: [pc, value, json, ret, out]
  pair,          \* two attempts side by side: [kind, cred, dc], cred and dc being
                 \* pairs of records, one per credential object / QueryDcAgent call
  wszUsername,   \* MfaSrvCredential::_wszUsername
  wszPassword,   \* MfaSrvCredential::_wszPassword
  wszOtp,        \* MfaSrvCredential::_wszOtp
  bMfaRequired,  \* MfaSrvCredential::_bMfaRequired
  bMfaCompleted, \* MfaSrvCredential::_bMfaCompleted
  szChallengeId, \* MfaSrvCredential::_szChallengeId
  credPc,        \* position of the credential's thread: idle, connect,
                 \* preauthSend, preauthRead, submitSend, submitRead, destroyed
  caller,        \* the method of the credential entered last: GetSerialization,
                 \* Connect, SetStringValue, SetDeselected, ReportResult, Destructor
  credPipe,      \* the handle MfaPipeConnect obtained: none, open, closed
  credReadMode,  \* read mode of that handle: none, message, byte
  credSent,      \* the messages written to the pipe in this call, in order
  credRecv,      \* the answers read from the pipe in this call, in order
  credPeer,      \* the messages the peer wrote to the pipe in this call, in order
  hrConnect,     \* what MfaPipeConnect returned in this call
  credIo,        \* how _PerformMfaCheck went
  hrMfa,         \* what _PerformMfaCheck returned ("none" while it has not)
  hrRet,         \* what the method called by LogonUI returned
  cpgsr,         \* *pcpgsr of GetSerialization
  statusText     \* which text *ppwszOptionalStatusText carries

dcVars == <<dcPc, dcTimeoutMs, dcUserName, dcDomain, dcPipe, dcSent, dcResponse, dcIo, dcDecision,
           ntStatus, subStatus>>
fieldVars == <<wszUsername, wszPassword, wszOtp>>
mfaVars == <<bMfaRequired, bMfaCompleted, szChallengeId>>
callVars == <<credPc, caller, credPipe, credReadMode, credSent, credRecv, credPeer, hrConnect, credIo,
              hrMfa, hrRet, cpgsr, statusText>>
credVars == <<fieldVars, mfaVars, callVars>>
vars == <<host, elapsed, codec, pair, dcVars, credVars>>

Hosts == {"lsass", "logonui"}

DcInit ==
  /\ dcPc = "idle"
  /\ dcTimeoutMs = MFASRV_PIPE_TIMEOUT
  /\ dcUserName = <<>>
  /\ dcDomain = <<>>
  /\ dcPipe = "none"
  /\ dcSent = <<>>
  /\ dcResponse = <<>>
  /\ dcIo = "none"
  /\ dcDecision = -1
  /\ ntStatus = "none"
  /\ subStatus = "none"

\* MfaSrvCredential::MfaSrvCredential
CredInit ==
  /\ wszUsername = <<>>
  /\ wszPassword = <<>>
  /\ wszOtp = <<>>
  /\ bMfaRequired = FALSE
  /\ bMfaCompleted = FALSE
  /\ szChallengeId = <<>>
  /\ credPc = "idle"
  /\ caller = "none"
  /\ credPipe = "none"
  /\ credReadMode = "none"
  /\ credSent = <<>>
  /\ credRecv = <<>>
  /\ credPeer = <<>>
  /\ hrConnect = "none"
  /\ credIo = "none"
  /\ hrMfa = "none"
  /\ hrRet = "none"
  /\ cpgsr = "none"
  /\ statusText = "none"

\* no round through the codec is under way
CodecIdle ==
  [pc |-> "idle", value |-> <<>>, key |-> <<>>, json |-> <<>>, ret |-> FALSE, out |-> <<>>,
   buf |-> <<>>, cbBuf |-> 0, pos |-> 0, appends |-> 0, op |-> "none", from |-> 0]

\* MfaSrvCredential::MfaSrvCredential, as a record: the members of one
\* object, the first answer and the submit_mfa message of its last check
NewCredential ==
  [pc |-> "idle", wszPassword |-> <<>>, wszOtp |-> <<>>,
   bMfaRequired |-> FALSE, bMfaCompleted |-> FALSE, szChallengeId |-> <<>>,
   recv |-> <<>>, sent |-> <<>>, hr |-> "none"]

\* the frame of one call of QueryDcAgent: its arguments, queryBuffer,
\* responseBuffer and return value
NewCall ==
  [pc |-> "idle", userName |-> <<>>, query |-> <<>>, response |-> <<>>, decision |-> -1]

\* no two attempts are followed
PairIdle == [kind |-> "none", cred |-> <<NewCredential, NewCredential>>,
             dc |-> <<NewCall, NewCall>>]

Init ==
  /\ host \in Hosts
  /\ elapsed = 0
  /\ codec = CodecIdle
  /\ pair = PairIdle
  /\ DcInit
  /\ CredInit

(***************************************************************************)
(* QueryDcAgent (DcAgent.Native/NamedPipeClient.cpp)                       *)
(***************************************************************************)
DcQueryBuffer ==
  BuildQueryJson(PIPE_BUFFER_SIZE, dcUserName, dcDomain, <<>>, <<>>, PROTO_AUTH_KERBEROS)

\* a filter that logs without a guard of its own: a fault of LogMessage is
\* a fault of the filter, and the search for a handler goes on past it
MfaSrvExceptionFilterUnguarded(logFaults) ==
  IF logFaults THEN "EXCEPTION_CONTINUE_SEARCH" ELSE "EXCEPTION_EXECUTE_HANDLER"

\* MfaSrvExceptionFilter: LogMessage in a __try of its own, then
\* "Always handle the exception"
MfaSrvExceptionFilter(logFaults) ==
  IF logFaults THEN "EXCEPTION_EXECUTE_HANDLER" ELSE "EXCEPTION_EXECUTE_HANDLER"

\* a switch that also fails the logon while the second factor is outstanding
LogonUserEx2StatusBlocking(decision) ==
  IF decision \in {MFASRV_DECISION_DENY, MFASRV_DECISION_REQUIRE_MFA, MFASRV_DECISION_PENDING}
  THEN "STATUS_LOGON_FAILURE" ELSE "STATUS_NOT_IMPLEMENTED"

\* the switch of MfaSrv_LogonUserEx2 on the decision of QueryDcAgent
LogonUserEx2Status(decision) ==
  IF decision = MFASRV_DECISION_DENY THEN "STATUS_LOGON_FAILURE" ELSE "STATUS_NOT_IMPLEMENTED"

\* *SubStatus after that switch; sub is its state before ("NULL": no pointer)
LogonUserEx2SubStatus(decision, sub) ==
  IF decision = MFASRV_DECISION_DENY /\ sub # "NULL" THEN "STATUS_ACCOUNT_RESTRICTION" ELSE sub

\* MfaSrv_LogonUserEx2, when it is the caller, runs to its return
LogonUserEx2Tail(decision, viaLogon, sub) ==
  /\ ntStatus' = IF viaLogon THEN LogonUserEx2Status(decision) ELSE "none"
  /\ subStatus' = IF viaLogon THEN LogonUserEx2SubStatus(decision, sub) ELSE "none"

\* QueryDcAgent returns `decision`; pipe is the state its handle is left in
QueryDcAgentReturn(decision, io, pipe) ==
  /\ dcPc' = "done"
  /\ dcDecision' = decision
  /\ dcIo' = io
  /\ dcPipe' = pipe

\* QueryDcAgent returns to the caller it has, which runs to its own return
DcReturn(decision, io, pipe) ==
  /\ QueryDcAgentReturn(decision, io, pipe)
  /\ LogonUserEx2Tail(decision, ntStatus = "pending", subStatus)

\* QueryDcAgent(pipeName, u, d, NULL, NULL, PROTO_AUTH_KERBEROS, t) from its
\* entry to the call of ConnectToPipe
QueryDcAgentCall(u, d, t, viaLogon, sub) ==
  LET q == BuildQueryJson(PIPE_BUFFER_SIZE, u, d, <<>>, <<>>, PROTO_AUTH_KERBEROS) IN
  /\ dcUserName' = u
  /\ dcDomain' = d
  /\ dcTimeoutMs' = t
  /\ dcSent' = <<>>
  /\ dcResponse' = <<>>
  /\ elapsed' = 0
  /\ IF q.len <= 0
     THEN /\ QueryDcAgentReturn(MFASRV_DECISION_ALLOW, "build", "none")
          /\ LogonUserEx2Tail(MFASRV_DECISION_ALLOW, viaLogon, sub)
     ELSE /\ dcPc' = "connect"
          /\ dcDecision' = -1
          /\ dcIo' = "none"
          /\ dcPipe' = "none"
          /\ ntStatus' = IF viaLogon THEN "pending" ELSE "none"
          /\ subStatus' = IF viaLogon THEN sub ELSE "none"

\* a call of QueryDcAgent with a timeout of the caller's choice
QueryDcAgent ==
  /\ host = "lsass"
  /\ dcPc \in {"idle", "done"}
  /\ \E u \in DcUserNames \cup {DcLongUserName}, d \in DcDomainNames, t \in DcTimeouts :
       QueryDcAgentCall(u, d, t, FALSE, "none")
  /\ UNCHANGED <<host, codec, pair, credVars>>

\* SAFE_NTSTATUS_END: what the caller of the wrapped function gets when an
\* exception reaches the wrapper
SAFE_NTSTATUS_END(logFaults) ==
  IF MfaSrvExceptionFilter(logFaults) = "EXCEPTION_EXECUTE_HANDLER"
  THEN "STATUS_SUCCESS" ELSE "propagated"

\* A logon that queries the decision service whatever the user name is
MfaSrv_LogonUserEx2Always ==
  /\ host = "lsass"
  /\ dcPc \in {"idle", "done"}
  /\ \E u \in LogonUserNames, d \in DcDomainNames, sub \in {"NULL", "unset"} :
       QueryDcAgentCall(u, d, MFASRV_PIPE_TIMEOUT, TRUE, sub)
  /\ UNCHANGED <<host, codec, pair, credVars>>

\* MfaSrv_LogonUserEx2 from its entry to the call of ConnectToPipe; without
\* a user name it passes the logon on and makes no query.  faults: reading
\* the primary credentials raises an exception in the function's own frame
MfaSrv_LogonUserEx2 ==
  /\ host = "lsass"
  /\ dcPc \in {"idle", "done"}
  /\ \E u \in LogonUserNames, d \in DcDomainNames, sub \in {"NULL", "unset"},
        faults \in BOOLEAN, logFaults \in BOOLEAN :
       IF faults
       THEN /\ dcPc' = "idle"
            /\ dcDecision' = -1
            /\ dcIo' = "none"
            /\ dcPipe' = "none"
            /\ dcUserName' = <<>>
            /\ dcDomain' = <<>>
            /\ dcSent' = <<>>
            /\ dcResponse' = <<>>
            /\ elapsed' = 0
            /\ ntStatus' = SAFE_NTSTATUS_END(logFaults)
            /\ subStatus' = sub
            /\ UNCHANGED dcTimeoutMs
       ELSE IF u = <<>>
       THEN /\ dcPc' = "idle"
            /\ dcDecision' = -1
            /\ dcIo' = "none"
            /\ dcPipe' = "none"
            /\ dcUserName' = u
            /\ dcDomain' = d
            /\ dcSent' = <<>>
            /\ dcResponse' = <<>>
            /\ elapsed' = 0
            /\ ntStatus' = "STATUS_NOT_IMPLEMENTED"
            /\ subStatus' = sub
            /\ UNCHANGED dcTimeoutMs
       ELSE QueryDcAgentCall(u, d, MFASRV_PIPE_TIMEOUT, TRUE, sub)
  /\ UNCHANGED <<host, codec, pair, credVars>>

\* a wait that pays no heed to what is left of the budget
ConnectWaitFixed(remaining) == ConnectPollMs

\* the timeout handed to WaitNamedPipeW: remaining < 500 ? remaining : 500
ConnectWait(remaining) == IF remaining < ConnectPollMs THEN remaining ELSE ConnectPollMs

\* one turn of the while loop of ConnectToPipe, and what follows the loop
ConnectToPipe ==
  /\ host = "lsass"
  /\ dcPc = "connect"
  /\ \E open \in {"opened", "busy", "error"}, modeOk \in BOOLEAN,
        waitOk \in BOOLEAN, waited \in BOOLEAN :
       LET remaining == dcTimeoutMs - elapsed
           elapsed2 == elapsed + (IF waited THEN ConnectWait(remaining) ELSE 0)
       IN
       CASE open = "opened" /\ modeOk ->
              /\ dcPc' = "send"
              /\ dcPipe' = "open"
              /\ UNCHANGED <<elapsed, dcDecision, dcIo, ntStatus, subStatus>>
         [] open = "opened" /\ ~modeOk ->
              /\ DcReturn(MFASRV_DECISION_ALLOW, "connect", "closed")
              /\ UNCHANGED elapsed
         [] open = "error" ->
              /\ DcReturn(MFASRV_DECISION_ALLOW, "connect", "none")
              /\ UNCHANGED elapsed
         [] open = "busy" /\ elapsed >= dcTimeoutMs ->
              /\ DcReturn(MFASRV_DECISION_ALLOW, "busy", "none")
              /\ UNCHANGED elapsed
         [] open = "busy" /\ elapsed < dcTimeoutMs /\ ~waitOk /\ elapsed2 >= dcTimeoutMs ->
              /\ DcReturn(MFASRV_DECISION_ALLOW, "busy", "none")
              /\ elapsed' = elapsed2
         [] OTHER ->
              /\ elapsed' = elapsed2
              /\ UNCHANGED <<dcPc, dcPipe, dcDecision, dcIo, ntStatus, subStatus>>
  /\ UNCHANGED <<host, codec, pair, credVars, dcTimeoutMs, dcUserName, dcDomain, dcSent, dcResponse>>

\* SendAndReceive up to the return of WriteFile
SendAndReceiveWrite ==
  /\ host = "lsass"
  /\ dcPc = "send"
  /\ \E written \in {"all", "part", "fail"} :
       IF written = "fail"
       THEN /\ DcReturn(MFASRV_DECISION_ALLOW, "write", "closed")
            /\ UNCHANGED dcSent
       ELSE /\ dcSent' = IF written = "all" THEN DcQueryBuffer.buf
                         ELSE SubSeq(DcQueryBuffer.buf, 1, DcQueryBuffer.len - 1)
            /\ dcPc' = "recv"
            /\ UNCHANGED <<dcPipe, dcDecision, dcIo, ntStatus, subStatus>>
  /\ UNCHANGED <<host, codec, pair, elapsed, credVars, dcTimeoutMs, dcUserName, dcDomain, dcResponse>>

\* SendAndReceive from the return of ReadFile, then the rest of QueryDcAgent
SendAndReceiveRead ==
  /\ host = "lsass"
  /\ dcPc = "recv"
  /\ \/ \E r \in DcResponses :
          /\ dcResponse' = r
          /\ DcReturn(ParseDecisionFromJson(r \o <<NUL>>, Len(r)), "ok", "closed")
     \/ /\ DcReturn(MFASRV_DECISION_ALLOW, "read", "closed")
        /\ UNCHANGED dcResponse
  /\ UNCHANGED <<host, codec, pair, elapsed, credVars, dcTimeoutMs, dcUserName, dcDomain, dcSent>>

\* a structured exception while the call runs.  Inside ConnectToPipe or
\* SendAndReceive their own SAFE_END returns the default and QueryDcAgent
\* goes on; in QueryDcAgent's own frame its SAFE_END returns at once.
\* logFaults: LogMessage itself raises an exception inside the filter.
\* With a filter that does not answer EXCEPTION_EXECUTE_HANDLER the
\* exception leaves the package ("propagated").
DcFault ==
  /\ host = "lsass"
  /\ dcPc \in {"connect", "send", "recv"}
  /\ \E frame \in {"callee", "QueryDcAgent"}, logFaults \in BOOLEAN :
       IF MfaSrvExceptionFilter(logFaults) = "EXCEPTION_EXECUTE_HANDLER"
       THEN DcReturn(MFASRV_DECISION_ALLOW, "fault",
                     IF dcPipe = "open" /\ frame = "callee" THEN "closed" ELSE dcPipe)
       ELSE /\ QueryDcAgentReturn(dcDecision, "propagated", dcPipe)
            /\ UNCHANGED <<ntStatus, subStatus>>
  /\ UNCHANGED <<host, codec, pair, elapsed, credVars, dcTimeoutMs, dcUserName, dcDomain, dcSent, dcResponse>>

\* time passes while WriteFile / ReadFile wait for the peer: the handle is
\* opened without FILE_FLAG_OVERLAPPED and timeoutMs is not used by them
DcBlocked ==
  /\ host = "lsass"
  /\ dcPc \in {"send", "recv"}
  /\ elapsed <= dcTimeoutMs
  /\ elapsed' = elapsed + TickMs
  /\ UNCHANGED <<host, codec, pair, dcVars, credVars>>

(***************************************************************************)
(* MfaSrvCredential (EndpointAgent.Native/MfaSrvCredential.cpp)            *)
(***************************************************************************)
\* what a method leaves behind of the call before it
ClearCallRecord ==
  /\ credPipe' = "none"
  /\ credReadMode' = "none"
  /\ credSent' = <<>>
  /\ credRecv' = <<>>
  /\ credPeer' = <<>>
  /\ hrConnect' = "none"
  /\ credIo' = "none"
  /\ hrMfa' = "none"

\* a method that does not call _PerformMfaCheck returns hr
PlainReturn(hr) ==
  /\ ClearCallRecord
  /\ hrRet' = hr
  /\ cpgsr' = "none"
  /\ statusText' = "none"
  /\ elapsed' = 0

SetStringValue ==
  /\ host = "logonui"
  /\ credPc = "idle"
  /\ \/ \E v \in UserNames :
          /\ wszUsername' = StringCchCopy(256, v)
          /\ UNCHANGED <<wszPassword, wszOtp>>
     \/ \E v \in Passwords :
          /\ wszPassword' = StringCchCopy(256, v)
          /\ UNCHANGED <<wszUsername, wszOtp>>
     \/ \E v \in Otps :
          /\ wszOtp' = StringCchCopy(64, v)
          /\ UNCHANGED <<wszUsername, wszPassword>>
  /\ PlainReturn("S_OK")
  /\ caller' = "SetStringValue"
  /\ UNCHANGED <<host, codec, pair, dcVars, mfaVars, credPc>>

SetDeselected ==
  /\ host = "logonui"
  /\ credPc = "idle"
  /\ wszPassword' = <<>>
  /\ wszOtp' = <<>>
  /\ PlainReturn("S_OK")
  /\ caller' = "SetDeselected"
  /\ UNCHANGED <<host, codec, pair, dcVars, mfaVars, credPc, wszUsername>>

ReportResult ==
  /\ host = "logonui"
  /\ credPc = "idle"
  /\ bMfaRequired' = FALSE
  /\ bMfaCompleted' = FALSE
  /\ szChallengeId' = <<>>
  /\ wszOtp' = <<>>
  /\ PlainReturn("S_OK")
  /\ caller' = "ReportResult"
  /\ UNCHANGED <<host, codec, pair, dcVars, credPc, wszUsername, wszPassword>>

\* MfaSrvCredential::~MfaSrvCredential: the last thing done to the object
Destructor ==
  /\ host = "logonui"
  /\ credPc = "idle"
  /\ credPc' = "destroyed"
  /\ wszPassword' = <<>>
  /\ wszOtp' = <<>>
  /\ szChallengeId' = <<>>
  /\ PlainReturn("none")
  /\ caller' = "Destructor"
  /\ UNCHANGED <<host, codec, pair, dcVars, wszUsername, bMfaRequired, bMfaCompleted>>

\* GetSerialization after _PerformMfaCheck returned hr, with the flags as
\* _PerformMfaCheck left them: [cpgsr, text]
GetSerializationTail(hr, required, completed, packOk) ==
  IF hr # "E_FAIL" /\ FAILED(hr)
  THEN [cpgsr |-> "CPGSR_NO_CREDENTIAL_FINISHED", text |-> "denied"]
  ELSE IF required /\ ~completed /\ wszOtp = <<>>
       THEN [cpgsr |-> "CPGSR_NO_CREDENTIAL_NOT_FINISHED", text |-> "otp"]
       ELSE IF ~packOk
            THEN [cpgsr |-> "CPGSR_NO_CREDENTIAL_NOT_FINISHED", text |-> "pack"]
            ELSE [cpgsr |-> "CPGSR_RETURN_CREDENTIAL_FINISHED", text |-> "none"]

\* A Connect that lets only a finished check through
ConnectTailStrict(hr) == IF hr = "S_OK" THEN "S_OK" ELSE "E_ACCESSDENIED"

\* Connect after _PerformMfaCheck returned hr
ConnectTail(hr) == IF SUCCEEDED(hr) \/ hr = "E_FAIL" THEN "S_OK" ELSE "E_ACCESSDENIED"

\* _PerformMfaCheck returns hr to its caller, which runs to its own return
PerformMfaCheckReturn(hr, io, pipe, required, completed, challengeId, packOk) ==
  /\ credPc' = "idle"
  /\ hrMfa' = hr
  /\ credIo' = io
  /\ credPipe' = pipe
  /\ bMfaRequired' = required
  /\ bMfaCompleted' = completed
  /\ szChallengeId' = challengeId
  /\ IF caller = "GetSerialization"
     THEN LET t == GetSerializationTail(hr, required, completed, packOk) IN
          /\ hrRet' = "S_OK"
          /\ cpgsr' = t.cpgsr
          /\ statusText' = t.text
     ELSE /\ hrRet' = ConnectTail(hr)
          /\ UNCHANGED <<cpgsr, statusText>>

\* GetSerialization from its entry to the WaitNamedPipeW of MfaPipeConnect
GetSerialization ==
  /\ host = "logonui"
  /\ credPc = "idle"
  /\ ClearCallRecord
  /\ cpgsr' = "CPGSR_NO_CREDENTIAL_NOT_FINISHED"
  /\ IF wszUsername = <<>> \/ wszPassword = <<>>
     THEN /\ caller' = "none"
          /\ hrRet' = "S_OK"
          /\ statusText' = IF wszUsername = <<>> THEN "username" ELSE "password"
          /\ UNCHANGED credPc
     ELSE /\ caller' = "GetSerialization"
          /\ hrRet' = "none"
          /\ statusText' = "none"
          /\ credPc' = "connect"
  /\ elapsed' = 0
  /\ UNCHANGED <<host, codec, pair, dcVars, fieldVars, mfaVars>>

\* Connect from its entry to the WaitNamedPipeW of MfaPipeConnect
\* pqcws->SetStatusMessage may fault: the __except block of Connect then
\* returns S_OK before _PerformMfaCheck is called
Connect ==
  /\ host = "logonui"
  /\ credPc = "idle"
  /\ \E statusFaults \in BOOLEAN :
       /\ credPipe' = "none"
       /\ credReadMode' = "none"
       /\ credSent' = <<>>
       /\ credRecv' = <<>>
       /\ credPeer' = <<>>
       /\ hrConnect' = "none"
       /\ hrMfa' = "none"
       /\ credIo' = IF statusFaults THEN "fault" ELSE "none"
       /\ hrRet' = IF statusFaults THEN "S_OK" ELSE "none"
       /\ credPc' = IF statusFaults THEN "idle" ELSE "connect"
  /\ caller' = "Connect"
  /\ cpgsr' = "none"
  /\ statusText' = "none"
  /\ elapsed' = 0
  /\ UNCHANGED <<host, codec, pair, dcVars, fieldVars, mfaVars>>

\* MfaPipeConnect(phPipe) with a non-null phPipe:
\*   [hr |-> the HRESULT, hPipe |-> *phPipe ("none" is INVALID_HANDLE_VALUE),
\*    mode |-> the read mode of the handle]
\* waitOk: WaitNamedPipeW succeeded; open: what CreateFileW did ("fault": an
\* exception reached the __except block); modeOk: message mode could be set
MfaPipeConnectResult(waitOk, open, modeOk) ==
  IF ~waitOk THEN [hr |-> "E_FAIL", hPipe |-> "none", mode |-> "none"]
  ELSE IF open = "fault" THEN [hr |-> "E_UNEXPECTED", hPipe |-> "none", mode |-> "none"]
  ELSE IF open # "opened" THEN [hr |-> "WIN32", hPipe |-> "none", mode |-> "none"]
  ELSE [hr |-> "S_OK", hPipe |-> "open", mode |-> IF modeOk THEN "message" ELSE "byte"]

\* MfaPipeConnect, and _PerformMfaCheck up to the first WriteFile
MfaPipeConnect ==
  /\ host = "logonui"
  /\ credPc = "connect"
  /\ \E waitOk \in BOOLEAN, waited \in BOOLEAN, open \in {"opened", "busy", "error", "fault"},
        modeOk \in BOOLEAN, packOk \in BOOLEAN :
       LET c == MfaPipeConnectResult(waitOk, open, modeOk) IN
       /\ elapsed' = IF waited THEN MFASRV_PIPE_TIMEOUT_MS ELSE 0
       /\ hrConnect' = c.hr
       /\ IF ~FAILED(c.hr) /\ c.hPipe # "none"
          THEN /\ credPipe' = c.hPipe
               /\ credReadMode' = c.mode
               /\ credPc' = "preauthSend"
               /\ UNCHANGED <<mfaVars, credIo, hrMfa, hrRet, cpgsr, statusText>>
          ELSE /\ PerformMfaCheckReturn("E_FAIL",
                                        IF waitOk /\ open = "busy" THEN "busy" ELSE "connect",
                                        c.hPipe,
                                        bMfaRequired, bMfaCompleted, szChallengeId, packOk)
               /\ UNCHANGED credReadMode
  /\ UNCHANGED <<host, codec, pair, dcVars, fieldVars, caller, credSent, credRecv, credPeer>>

\* _PerformMfaCheck: MfaPipeSend of the preauth message
PerformMfaCheckSendPreauth ==
  /\ host = "logonui"
  /\ credPc = "preauthSend"
  /\ \E written \in {"all", "part", "fail"}, packOk \in BOOLEAN :
       LET szJson == BuildPreauthJson(wszUsername, ComputerName)
           msg == Message(szJson)
       IN IF FAILED(MfaPipeSend(written))
          THEN /\ credSent' = IF written = "part"
                              THEN Append(credSent, SubSeq(msg, 1, Len(msg) - 1))
                              ELSE credSent
               /\ PerformMfaCheckReturn("E_FAIL", "send", "closed",
                                        bMfaRequired, bMfaCompleted, szChallengeId, packOk)
          ELSE /\ credSent' = Append(credSent, msg)
               /\ credPc' = "preauthRead"
               /\ UNCHANGED <<mfaVars, credPipe, credIo, hrMfa, hrRet, cpgsr, statusText>>
  /\ UNCHANGED <<host, codec, pair, elapsed, dcVars, fieldVars, caller, credReadMode, credRecv, credPeer, hrConnect>>

\* _PerformMfaCheck: MfaPipeRead of the preauth answer and what follows it,
\* up to the return or to the WriteFile of the submit_mfa message
PerformMfaCheckReadPreauth ==
  /\ host = "logonui"
  /\ credPc = "preauthRead"
  /\ \E w \in PeerWrites, packOk \in BOOLEAN :
       LET reads == ReadScript(Unread(credPeer \o w, credRecv), CB_szResponse, credReadMode)
           rd == MfaPipeRead(CB_szResponse, reads)
           szResponse == CStr(rd.buf)
           szStatus == JsonGetString(szResponse, K_status, <<>>, CB_szStatus).out
           cid == JsonGetString(szResponse, K_challengeId, szChallengeId, CB_szChallengeId).out
       IN /\ credPeer' = credPeer \o w
          /\ IF FAILED(rd.hr)
             THEN /\ PerformMfaCheckReturn("E_FAIL", "read", "closed",
                                           bMfaRequired, bMfaCompleted, szChallengeId, packOk)
                  /\ UNCHANGED credRecv
             ELSE /\ credRecv' = Append(credRecv, rd.buf)
                  /\ CASE PreauthStatusKind(szStatus) = "none" ->
                            PerformMfaCheckReturn("E_FAIL", "status", "closed",
                                                  bMfaRequired, bMfaCompleted, szChallengeId, packOk)
                       [] PreauthStatusKind(szStatus) = "approved" ->
                            PerformMfaCheckReturn("S_OK", "ok", "closed",
                                                  FALSE, TRUE, szChallengeId, packOk)
                       [] PreauthStatusKind(szStatus) = "denied" ->
                            PerformMfaCheckReturn("E_ACCESSDENIED", "ok", "closed",
                                                  bMfaRequired, bMfaCompleted, szChallengeId, packOk)
                       [] PreauthStatusKind(szStatus) = "mfa_required" /\ HasOtp(wszOtp) ->
                            /\ bMfaRequired' = TRUE
                            /\ bMfaCompleted' = FALSE
                            /\ szChallengeId' = cid
                            /\ credPc' = "submitSend"
                            /\ UNCHANGED <<credPipe, credIo, hrMfa, hrRet, cpgsr, statusText>>
                       [] PreauthStatusKind(szStatus) = "mfa_required" /\ ~HasOtp(wszOtp) ->
                            PerformMfaCheckReturn("S_FALSE", "ok", "closed",
                                                  TRUE, FALSE, cid, packOk)
                       [] OTHER ->
                            PerformMfaCheckReturn("E_FAIL", "status", "closed",
                                                  bMfaRequired, bMfaCompleted, szChallengeId, packOk)
  /\ UNCHANGED <<host, codec, pair, elapsed, dcVars, fieldVars, caller, credReadMode, credSent, hrConnect>>

\* _PerformMfaCheck: MfaPipeSend of the submit_mfa message
PerformMfaCheckSendSubmit ==
  /\ host = "logonui"
  /\ credPc = "submitSend"
  /\ \E written \in {"all", "part", "fail"}, packOk \in BOOLEAN :
       LET szJson == BuildSubmitJson(szChallengeId, wszOtp)
           msg == Message(szJson)
       IN IF FAILED(MfaPipeSend(written))
          THEN /\ credSent' = IF written = "part"
                              THEN Append(credSent, SubSeq(msg, 1, Len(msg) - 1))
                              ELSE credSent
               /\ PerformMfaCheckReturn("E_FAIL", "send", "closed",
                                        bMfaRequired, bMfaCompleted, szChallengeId, packOk)
          ELSE /\ credSent' = Append(credSent, msg)
               /\ credPc' = "submitRead"
               /\ UNCHANGED <<mfaVars, credPipe, credIo, hrMfa, hrRet, cpgsr, statusText>>
  /\ UNCHANGED <<host, codec, pair, elapsed, dcVars, fieldVars, caller, credReadMode, credRecv, credPeer, hrConnect>>

\* _PerformMfaCheck: MfaPipeRead of the submit_mfa answer and the return
PerformMfaCheckReadSubmit ==
  /\ host = "logonui"
  /\ credPc = "submitRead"
  /\ \E w \in PeerWrites, packOk \in BOOLEAN :
       LET reads == ReadScript(Unread(credPeer \o w, credRecv), CB_szResponse, credReadMode)
           rd == MfaPipeRead(CB_szResponse, reads)
           szResponse == CStr(rd.buf)
           szStatus == JsonGetString(szResponse, K_status, <<>>, CB_szStatus).out
       IN /\ credPeer' = credPeer \o w
          /\ IF FAILED(rd.hr)
             THEN /\ PerformMfaCheckReturn("E_FAIL", "read", "closed",
                                           bMfaRequired, bMfaCompleted, szChallengeId, packOk)
                  /\ UNCHANGED credRecv
             ELSE /\ credRecv' = Append(credRecv, rd.buf)
                  /\ CASE SubmitStatusKind(szStatus) = "approved" ->
                            PerformMfaCheckReturn("S_OK", "ok", "closed",
                                                  bMfaRequired, TRUE, szChallengeId, packOk)
                       [] SubmitStatusKind(szStatus) = "denied" ->
                            PerformMfaCheckReturn("E_ACCESSDENIED", "ok", "closed",
                                                  bMfaRequired, bMfaCompleted, szChallengeId, packOk)
                       [] OTHER ->
                            PerformMfaCheckReturn("E_FAIL", "status", "closed",
                                                  bMfaRequired, bMfaCompleted, szChallengeId, packOk)
  /\ UNCHANGED <<host, codec, pair, elapsed, dcVars, fieldVars, caller, credReadMode, credSent, hrConnect>>

\* a structured exception in the frame of _PerformMfaCheck: its __except
\* block returns E_FAIL and nothing else
PerformMfaCheckFault ==
  /\ host = "logonui"
  /\ credPc \in {"connect", "preauthSend", "preauthRead", "submitSend", "submitRead"}
  /\ \E packOk \in BOOLEAN :
       PerformMfaCheckReturn("E_FAIL", "fault", credPipe,
                             bMfaRequired, bMfaCompleted, szChallengeId, packOk)
  /\ UNCHANGED <<host, codec, pair, elapsed, dcVars, fieldVars, caller, credReadMode, credSent, credRecv, credPeer, hrConnect>>

\* time passes while WriteFile / ReadFile wait for the peer: the handle is
\* opened without FILE_FLAG_OVERLAPPED and no timer runs
PerformMfaCheckBlocked ==
  /\ host = "logonui"
  /\ credPc \in {"preauthSend", "preauthRead", "submitSend", "submitRead"}
  /\ elapsed <= MFASRV_PIPE_TIMEOUT_MS
  /\ elapsed' = elapsed + TickMs
  /\ UNCHANGED <<host, codec, pair, dcVars, credVars>>

Next ==
  \/ QueryDcAgent
  \/ MfaSrv_LogonUserEx2
  \/ ConnectToPipe
  \/ SendAndReceiveWrite
  \/ SendAndReceiveRead
  \/ DcFault
  \/ DcBlocked
  \/ SetStringValue
  \/ SetDeselected
  \/ ReportResult
  \/ Destructor
  \/ GetSerialization
  \/ Connect
  \/ MfaPipeConnect
  \/ PerformMfaCheckSendPreauth
  \/ PerformMfaCheckReadPreauth
  \/ PerformMfaCheckSendSubmit
  \/ PerformMfaCheckReadSubmit
  \/ PerformMfaCheckFault
  \/ PerformMfaCheckBlocked

Spec == Init /\ [][Next]_vars

(***************************************************************************)
(* The endpoint codec on its own: JsonAppendEscaped and JsonGetString      *)
(* applied to bounded inputs (NamedPipeClient.cpp)                         *)
(***************************************************************************)
CodecMaxLen == 3

CodecAlphabet == {"a", "n", QUOTE, BSLASH, LF, CR, TAB}

RECURSIVE CodecStrings(_)
CodecStrings(n) ==
  IF n = 0 THEN {<<>>}
  ELSE LET shorter == CodecStrings(n - 1)
       IN shorter \cup {Append(v, c) : v \in shorter, c \in CodecAlphabet}

\* the non-empty field values handed to JsonAppendEscaped
CodecValues == CodecStrings(CodecMaxLen) \ {<<>>}

\* {"key":"value"} as a peer writes it; value is already escaped
FieldMsg(key, sep, value) ==
  <<"{", QUOTE>> \o key \o <<QUOTE, ":">> \o sep \o <<QUOTE>> \o value \o <<QUOTE, "}">>

\* messages handed to JsonGetString as received
CodecMessages ==
  { FieldMsg(K_challengeId, <<>>, <<>>),         \* present, empty
    FieldMsg(K_challengeId, <<" ">>, <<>>),      \* present, empty, spaced
    FieldMsg(K_challengeId, <<>>, <<"a">>),
    FieldMsg(K_challengeId, <<" ">>, <<"a", "n">>),
    FieldMsg(K_status, <<>>, <<"a">>),           \* another key only
    <<"{", "}">>,
    <<>> }

\* a key that fills the first search pattern of JsonGetString but not the second
CodecLongKey == Rep("k", 248)

\* keys JsonGetString is asked for, values of a field as the peer writes them
\* a message in which the field key occurs twice, each time with its own
\* spacing after the colon
TwoFieldMsg(key, sep1, v1, sep2, v2) ==
  <<"{", QUOTE>> \o key \o <<QUOTE, ":">> \o sep1 \o <<QUOTE>> \o v1 \o <<QUOTE, ",", QUOTE>>
    \o key \o <<QUOTE, ":">> \o sep2 \o <<QUOTE>> \o v2 \o <<QUOTE, "}">>

\* the values of a repeated field
CodecRepeatedValues == { <<"a">>, <<"b">> }

CodecKeys == { K_challengeId, K_status, <<"k">>, CodecLongKey }
CodecFieldValues == { <<>>, <<"a">>, <<"a", "n">>, <<BSLASH, QUOTE>>, <<" ">> }
CodecSeparators == { <<>>, <<" ">> }

\* the field written the way _PerformMfaCheck writes challengeId
EncodeField(key, value) ==
  LET b1 == JsonAppendRaw(EmptyBuf, CB_szJson, <<"{", QUOTE>> \o key \o <<QUOTE, ":", QUOTE>>)
      b2 == JsonAppendEscaped(b1, CB_szJson, value)
      b3 == JsonAppendRaw(b2, CB_szJson, <<QUOTE, "}">>)
  IN CStr(b3.buf)

\* some pattern of JsonGetString for key matches in json
KeyOccurs(json, key) ==
  \/ JsonFind(json, JsonPattern(key, FALSE), 0) # -1
  \/ JsonFind(json, JsonPattern(key, TRUE), 0) # -1

\* the appenders on small buffers: sizes, inputs, calls in a row
AppendMaxBuf == 4
AppendMaxLen == 3
AppendMaxCalls == 3

RECURSIVE AppendStrings(_)
AppendStrings(n) ==
  IF n = 0 THEN {<<>>}
  ELSE LET shorter == AppendStrings(n - 1)
       IN shorter \cup {Append(v, c) : v \in shorter, c \in {"a", QUOTE}}

\* a caller's buffer of cbBuf bytes that nobody has cleared
StaleBuf(cbBuf) == [k \in 1..cbBuf |-> "?"]

CodecInit ==
  /\ host = "none"
  /\ elapsed = 0
  /\ pair = PairIdle
  /\ DcInit
  /\ CredInit
  /\ \/ \E v \in CodecValues :
          codec = [CodecIdle EXCEPT !.pc = "start", !.value = v, !.key = K_challengeId]
     \/ \E m \in CodecMessages :
          codec = [CodecIdle EXCEPT !.pc = "received", !.json = m, !.key = K_challengeId]
     \/ \E k \in CodecKeys, sep \in CodecSeparators, v \in CodecFieldValues :
          codec = [CodecIdle EXCEPT !.pc = "received", !.json = FieldMsg(k, sep, v), !.key = k]
     \/ \E k \in {K_status, <<"k">>}, s1 \in CodecSeparators, s2 \in CodecSeparators,
           v1 \in CodecRepeatedValues, v2 \in CodecRepeatedValues :
          codec = [CodecIdle EXCEPT !.pc = "received",
                                    !.json = TwoFieldMsg(k, s1, v1, s2, v2), !.key = k]
     \/ \E cb \in 1..AppendMaxBuf : \E p \in 0..(cb - 1) :
          codec = [CodecIdle EXCEPT !.pc = "append", !.buf = StaleBuf(cb), !.cbBuf = cb, !.pos = p]

\* JsonAppendEscaped writes codec.value as the value of the field codec.key
CodecEncode ==
  /\ codec.pc = "start"
  /\ codec' = [codec EXCEPT !.pc = "encoded", !.json = EncodeField(codec.key, codec.value)]
  /\ UNCHANGED <<host, elapsed, pair, dcVars, credVars>>

\* JsonGetString reads the field codec.key into a cleared buffer
CodecDecode ==
  /\ codec.pc \in {"encoded", "received"}
  /\ LET r == JsonGetString(codec.json, codec.key, <<>>, CB_szChallengeId)
     IN codec' = [codec EXCEPT !.pc = IF codec.pc = "encoded" THEN "decoded" ELSE "scanned",
                               !.ret = r.ret, !.out = r.out]
  /\ UNCHANGED <<host, elapsed, pair, dcVars, credVars>>

\* JsonAppendRaw(buf, cbBuf, &pos, s) on the buffer as the last call left it;
\* op, value and from keep the call, its argument and *piPos on entry
CodecAppendRaw ==
  /\ codec.pc = "append"
  /\ codec.appends < AppendMaxCalls
  /\ \E s \in AppendStrings(AppendMaxLen) :
       LET b == JsonAppendRaw([buf |-> codec.buf, pos |-> codec.pos], codec.cbBuf, s)
       IN codec' = [codec EXCEPT !.buf = b.buf, !.pos = b.pos, !.appends = @ + 1,
                                 !.op = "raw", !.value = s, !.from = codec.pos]
  /\ UNCHANGED <<host, elapsed, pair, dcVars, credVars>>

\* JsonAppendEscaped(buf, cbBuf, &pos, s) on the buffer as the last call left it
CodecAppendEscaped ==
  /\ codec.pc = "append"
  /\ codec.appends < AppendMaxCalls
  /\ \E s \in AppendStrings(AppendMaxLen) :
       LET b == JsonAppendEscaped([buf |-> codec.buf, pos |-> codec.pos], codec.cbBuf, s)
       IN codec' = [codec EXCEPT !.buf = b.buf, !.pos = b.pos, !.appends = @ + 1,
                                 !.op = "escaped", !.value = s, !.from = codec.pos]
  /\ UNCHANGED <<host, elapsed, pair, dcVars, credVars>>

CodecNext ==
  \/ CodecEncode
  \/ CodecDecode
  \/ CodecAppendRaw
  \/ CodecAppendEscaped

CodecSpec == CodecInit /\ [][CodecNext]_vars

(***************************************************************************)
(* Two attempts in one host process: two MfaSrvCredential objects, or two  *)
(* calls of QueryDcAgent on two threads.  Every member is reached through  *)
(* `this`, every buffer of QueryDcAgent lives in the frame of its call.    *)
(***************************************************************************)
Attempts == {1, 2}

\* a layout in which _szChallengeId is one buffer for all objects
ThisCredentialSharedChallenge(creds, i, c) ==
  IF i = 1 THEN <<c, [creds[2] EXCEPT !.szChallengeId = c.szChallengeId]>>
  ELSE <<[creds[1] EXCEPT !.szChallengeId = c.szChallengeId], c>>

\* the objects after a method wrote c through `this` = object i
ThisCredential(creds, i, c) == IF i = 1 THEN <<c, creds[2]>> ELSE <<creds[1], c>>

\* the frames after call k wrote q into its locals
ThisCall(calls, k, q) == IF k = 1 THEN <<q, calls[2]>> ELSE <<calls[1], q>>

\* _PerformMfaCheck on object c from the preauth answer r to its return or
\* to the point where _szChallengeId is stored and the OTP is at hand
CredAfterPreauth(c, r) ==
  LET szStatus == JsonGetString(CStr(r), K_status, <<>>, CB_szStatus).out
      cid == JsonGetString(CStr(r), K_challengeId, c.szChallengeId, CB_szChallengeId).out
      kind == PreauthStatusKind(szStatus)
      c1 == [c EXCEPT !.recv = r, !.sent = <<>>]
  IN CASE kind = "approved" ->
            [c1 EXCEPT !.bMfaRequired = FALSE, !.bMfaCompleted = TRUE, !.hr = "S_OK"]
       [] kind = "denied" -> [c1 EXCEPT !.hr = "E_ACCESSDENIED"]
       [] kind = "mfa_required" /\ HasOtp(c.wszOtp) ->
            [c1 EXCEPT !.bMfaRequired = TRUE, !.bMfaCompleted = FALSE,
                       !.szChallengeId = cid, !.pc = "submit", !.hr = "none"]
       [] kind = "mfa_required" /\ ~HasOtp(c.wszOtp) ->
            [c1 EXCEPT !.bMfaRequired = TRUE, !.bMfaCompleted = FALSE,
                       !.szChallengeId = cid, !.hr = "S_FALSE"]
       [] OTHER -> [c1 EXCEPT !.hr = "E_FAIL"]

\* the rest of _PerformMfaCheck on object c: the submit_mfa message built
\* from its _szChallengeId and _wszOtp, and the answer r to it
CredAfterSubmit(c, r) ==
  LET szStatus == JsonGetString(CStr(r), K_status, <<>>, CB_szStatus).out
      kind == SubmitStatusKind(szStatus)
      c1 == [c EXCEPT !.pc = "idle", !.sent = Message(BuildSubmitJson(c.szChallengeId, c.wszOtp))]
  IN CASE kind = "approved" -> [c1 EXCEPT !.bMfaCompleted = TRUE, !.hr = "S_OK"]
       [] kind = "denied" -> [c1 EXCEPT !.hr = "E_ACCESSDENIED"]
       [] OTHER -> [c1 EXCEPT !.hr = "E_FAIL"]

\* answers of the peer to the two attempts
PairPreauthAnswers ==
  { StatusMsg(W_approved), StatusMsg(W_denied) }
  \cup { ChallengeMsg(W_mfa_required, c) : c \in PeerChallengeIds }
PairSubmitAnswers == { StatusMsg(W_approved), StatusMsg(W_denied) }
PairDcResponses == { DecisionMsg(<<NUL, "1">>), DecisionMsg(<<NUL, "2">>), <<"{", "}">> }

PairInit ==
  /\ host = "none"
  /\ elapsed = 0
  /\ codec = CodecIdle
  /\ DcInit
  /\ CredInit
  /\ \E k \in {"cred", "dc"} : pair = [PairIdle EXCEPT !.kind = k]

\* SetStringValue on object i: the password or the OTP field
PairSetStringValue ==
  /\ pair.kind = "cred"
  /\ \E i \in Attempts :
       /\ pair.cred[i].pc = "idle"
       /\ \/ \E v \in Passwords :
               pair' = [pair EXCEPT !.cred = ThisCredential(pair.cred, i,
                          [pair.cred[i] EXCEPT !.wszPassword = StringCchCopy(256, v)])]
          \/ \E v \in Otps :
               pair' = [pair EXCEPT !.cred = ThisCredential(pair.cred, i,
                          [pair.cred[i] EXCEPT !.wszOtp = StringCchCopy(64, v)])]
  /\ UNCHANGED <<host, elapsed, codec, dcVars, credVars>>

\* GetSerialization / Connect on object i up to the preauth answer
PairPreauth ==
  /\ pair.kind = "cred"
  /\ \E i \in Attempts, r \in PairPreauthAnswers :
       /\ pair.cred[i].pc = "idle"
       /\ pair.cred[i].wszPassword # <<>>
       /\ pair' = [pair EXCEPT !.cred = ThisCredential(pair.cred, i,
                                                       CredAfterPreauth(pair.cred[i], r))]
  /\ UNCHANGED <<host, elapsed, codec, dcVars, credVars>>

\* the OTP step of the check running on object i
PairSubmit ==
  /\ pair.kind = "cred"
  /\ \E i \in Attempts, r \in PairSubmitAnswers :
       /\ pair.cred[i].pc = "submit"
       /\ pair' = [pair EXCEPT !.cred = ThisCredential(pair.cred, i,
                                                       CredAfterSubmit(pair.cred[i], r))]
  /\ UNCHANGED <<host, elapsed, codec, dcVars, credVars>>

\* ReportResult on object i
PairReportResult ==
  /\ pair.kind = "cred"
  /\ \E i \in Attempts :
       /\ pair.cred[i].pc = "idle"
       /\ pair' = [pair EXCEPT !.cred = ThisCredential(pair.cred, i,
                      [pair.cred[i] EXCEPT !.bMfaRequired = FALSE, !.bMfaCompleted = FALSE,
                                           !.szChallengeId = <<>>, !.wszOtp = <<>>,
                                           !.recv = <<>>, !.sent = <<>>, !.hr = "none"])]
  /\ UNCHANGED <<host, elapsed, codec, dcVars, credVars>>

\* call k of QueryDcAgent builds its query and sends it
PairQuery ==
  /\ pair.kind = "dc"
  /\ \E k \in Attempts, u \in DcUserNames :
       /\ pair.dc[k].pc = "idle"
       /\ pair' = [pair EXCEPT !.dc = ThisCall(pair.dc, k,
                      [pair.dc[k] EXCEPT !.pc = "recv", !.userName = u,
                         !.query = BuildQueryJson(PIPE_BUFFER_SIZE, u, <<"C">>, <<>>, <<>>,
                                                  PROTO_AUTH_KERBEROS).buf])]
  /\ UNCHANGED <<host, elapsed, codec, dcVars, credVars>>

\* call k reads the answer to its query and returns
PairAnswer ==
  /\ pair.kind = "dc"
  /\ \E k \in Attempts, r \in PairDcResponses :
       /\ pair.dc[k].pc = "recv"
       /\ pair' = [pair EXCEPT !.dc = ThisCall(pair.dc, k,
                      [pair.dc[k] EXCEPT !.pc = "done", !.response = r,
                         !.decision = ParseDecisionFromJson(r \o <<NUL>>, Len(r))])]
  /\ UNCHANGED <<host, elapsed, codec, dcVars, credVars>>

PairNext ==
  \/ PairSetStringValue
  \/ PairPreauth
  \/ PairSubmit
  \/ PairReportResult
  \/ PairQuery
  \/ PairAnswer

PairSpec == PairInit /\ [][PairNext]_vars

(***************************************************************************)
(* Properties                                                              *)
(***************************************************************************)
\* QueryDcAgent has returned after ReadFile delivered an answer
DcAnswered == dcPc = "done" /\ dcIo = "ok"

\* the answer carries "decision":N as Protocol.h writes the field
CarriesDecision(resp, n) == Contains(resp, DecisionKey \o FormatDigit(n))

\* C1: when the peer answers the request with the flat message
\* {"decision":N}, N in 0..3, QueryDcAgent returns N.
C1_FlatDecisionIsReturned ==
  \A n \in 0..3 :
    (DcAnswered /\ dcResponse = DecisionMsg(FormatDigit(n))) => dcDecision = n

\* C2: QueryDcAgent returns Allow whenever connect, write or read fails,
\* the answer has no decision field or its code is outside 0..3; it returns
\* Deny only when an answer was read and carries decision code 2.
C2_FailOpenLaw ==
  dcPc = "done" =>
    /\ dcIo \in {"build", "connect", "busy", "write", "read", "fault"}
          => dcDecision = MFASRV_DECISION_ALLOW
    /\ (dcIo = "ok" /\ \A n \in 0..3 : ~CarriesDecision(dcResponse, n))
          => dcDecision = MFASRV_DECISION_ALLOW
    /\ dcDecision = MFASRV_DECISION_DENY
          => (dcIo = "ok" /\ CarriesDecision(dcResponse, MFASRV_DECISION_DENY))

\* C3: send and receive give up once the budget of the call has elapsed:
\* no call is still waiting in WriteFile or ReadFile after its timeout.
C3_SendReceiveWithinBudget ==
  /\ dcPc \in {"send", "recv"} => elapsed <= dcTimeoutMs
  /\ credPc \in {"preauthSend", "preauthRead", "submitSend", "submitRead"}
        => elapsed <= MFASRV_PIPE_TIMEOUT_MS

\* _PerformMfaCheck has returned to GetSerialization, which has returned
SerializationDone == credPc = "idle" /\ caller = "GetSerialization" /\ hrMfa # "none"
\* _PerformMfaCheck has returned (to either caller)
CheckDone == credPc = "idle" /\ hrMfa # "none"

\* the status the scanner finds in an answer
StatusIn(resp) == JsonGetString(CStr(resp), K_status, <<>>, CB_szStatus).out

\* C4: with a non-empty username and password, if the pipe cannot be
\* connected during GetSerialization the call releases the credential as if
\* MFA were not configured (whatever packing gives); it neither asks for an
\* OTP nor denies.
C4_ConnectFailureReleases ==
  (SerializationDone /\ credIo \in {"connect", "busy"})
    => (cpgsr = "CPGSR_RETURN_CREDENTIAL_FINISHED" \/ statusText = "pack")

\* C5: _PerformMfaCheck reports denial only when the status is "denied",
\* approval only when it is "approved", and a status outside the
\* vocabulary gives E_FAIL, at the preauth and at the submit step.
C5_ExactStatusVocabulary ==
  (CheckDone /\ credIo \in {"ok", "status"}) =>
    LET status == StatusIn(credRecv[Len(credRecv)]) IN
    /\ hrMfa = "E_ACCESSDENIED" => status = W_denied
    /\ (hrMfa = "S_OK" /\ bMfaCompleted) => status = W_approved
    /\ status \notin {W_approved, W_mfa_required, W_denied} => hrMfa = "E_FAIL"

\* every place where a status pattern occurs is followed by the closing quote
StatusAbsentOrEmpty(resp) ==
  \A spaced \in BOOLEAN : \A i \in 0..Len(resp) :
    OccursAt(JsonPattern(K_status, spaced), CStr(resp), i)
      => At(CStr(resp), i + Len(JsonPattern(K_status, spaced))) \in {QUOTE, NUL}

\* not even the outer braces of a JSON object
NotAnObject(resp) ==
  ~(Len(resp) >= 2 /\ resp[1] = "{" /\ resp[Len(resp)] = "}")

\* the step in which the first answer of a call is read
FirstAnswerRead == credPc = "preauthRead" /\ Len(credRecv') = 1

\* C6 (as stated): a first answer that is syntactically malformed or has no
\* status field gives E_FAIL and leaves required, completed and the
\* challenge identifier unchanged.
C6_MalformedFailsOpen ==
  [][(FirstAnswerRead /\ (NotAnObject(credRecv'[1]) \/ StatusAbsentOrEmpty(credRecv'[1])))
       => (hrMfa' = "E_FAIL" /\ UNCHANGED mfaVars)]_vars

\* C6 (amended): a first answer in which no status field with a value
\* occurs gives E_FAIL and leaves required, completed and the challenge
\* identifier unchanged.
C6_NoStatusFailsOpen ==
  [][(FirstAnswerRead /\ StatusAbsentOrEmpty(credRecv'[1]))
       => (hrMfa' = "E_FAIL" /\ UNCHANGED mfaVars)]_vars

C6_Witness ==
  /\ CheckDone /\ Len(credRecv) = 1 /\ credRecv[1] = <<"{", "}">>
  /\ hrMfa = "E_FAIL" /\ bMfaRequired /\ szChallengeId # <<>>

\* C7: QueryDcAgent and _PerformMfaCheck never return while the handle
\* they obtained from connect is still open.
C7_ChannelClosedOnReturn ==
  /\ dcPc = "done" => dcPipe # "open"
  /\ credPc = "idle" => credPipe # "open"

\* the challenge identifier the scanner finds in an answer
ChallengeIn(resp) == JsonGetString(CStr(resp), K_challengeId, <<>>, CB_szChallengeId).out

\* the submit_mfa request of the protocol for challenge cid and code otp
SubmitMsg(cid, otp) ==
  <<"{", QUOTE>> \o K_type \o <<QUOTE, ":", QUOTE>> \o W_submit_mfa
    \o <<QUOTE, ",", QUOTE>> \o K_challengeId \o <<QUOTE, ":", QUOTE>> \o PeerEscape(cid)
    \o <<QUOTE, ",", QUOTE>> \o K_response \o <<QUOTE, ":", QUOTE>> \o PeerEscape(otp)
    \o <<QUOTE, "}">>

\* the step in which the answer to submit_mfa is read
SubmitAnswerRead == credPc = "submitRead" /\ Len(credSent) = 2 /\ Len(credRecv') = 2

C9_ChallengeFlow ==
  \A c \in PeerChallengeIds :
    (Len(credRecv) >= 1 /\ credRecv[1] = ChallengeMsg(W_mfa_required, c)) =>
      /\ Len(credRecv) = 1
            => (bMfaRequired /\ ~bMfaCompleted /\ szChallengeId = c)
      /\ (credPc = "submitRead" \/ Len(credRecv) = 2)
            => (Len(credSent) = 2 /\ credSent[2] = SubmitMsg(c, wszOtp))
      /\ (Len(credRecv) = 2 /\ credRecv[2] = StatusMsg(W_approved))
            => (bMfaRequired /\ bMfaCompleted /\ szChallengeId = c /\ hrMfa = "S_OK")

C9_Witness ==
  /\ CheckDone /\ Len(credRecv) = 2
  /\ credRecv[1] = ChallengeMsg(W_mfa_required, <<"k", QUOTE>>)
  /\ credRecv[2] = StatusMsg(W_approved)
  /\ bMfaCompleted /\ szChallengeId = <<"k", QUOTE>>

\* GetSerialization has returned from a call that got as far as the OTP submit
SubmitStepDone ==
  /\ SerializationDone /\ Len(credRecv) >= 1 /\ wszOtp # <<>>
  /\ PreauthStatusKind(StatusIn(credRecv[1])) = "mfa_required"

\* C10: at the OTP-submit step only an explicit approval sets completed; an
\* explicit denial gives E_ACCESSDENIED and CPGSR_NO_CREDENTIAL_FINISHED; a
\* send failure, receive failure or unparsable answer gives E_FAIL and the
\* credential is released.
C10_SubmitStepOutcomes ==
  SubmitStepDone =>
    /\ bMfaCompleted => (Len(credRecv) = 2 /\ StatusIn(credRecv[2]) = W_approved)
    /\ (Len(credRecv) = 2 /\ StatusIn(credRecv[2]) = W_denied)
          => (hrMfa = "E_ACCESSDENIED" /\ cpgsr = "CPGSR_NO_CREDENTIAL_FINISHED")
    /\ (credIo \in {"send", "read"} \/ (Len(credRecv) = 2 /\ StatusAbsentOrEmpty(credRecv[2])))
          => /\ hrMfa = "E_FAIL"
             /\ cpgsr = "CPGSR_RETURN_CREDENTIAL_FINISHED" \/ statusText = "pack"

\* the challenge state machine is at NoChallenge
NoChallenge ==
  /\ ~bMfaRequired /\ ~bMfaCompleted /\ szChallengeId = <<>> /\ wszOtp = <<>>

\* C11: the challenge state machine is at NoChallenge (required and
\* completed false, challenge identifier and OTP empty) at the end of every
\* logon attempt: after ReportResult, after a denial returned by
\* GetSerialization and after SetDeselected.
C11_ResetAtEndOfAttempt ==
  (\/ credPc = "idle" /\ caller \in {"ReportResult", "SetDeselected"}
   \/ SerializationDone /\ cpgsr = "CPGSR_NO_CREDENTIAL_FINISHED")
    => NoChallenge

\* C12: after ReportResult, SetDeselected or the destructor the password
\* buffer and the OTP buffer are both empty.
C12_SecretsZeroed ==
  caller \in {"ReportResult", "SetDeselected", "Destructor"}
    => (wszPassword = <<>> /\ wszOtp = <<>>)

\* _PerformMfaCheck has returned from a call in which the preauth answer
\* said "mfa_required" while the credential held an OTP
OtpHeldAtChallenge ==
  /\ CheckDone /\ Len(credRecv) >= 1 /\ wszOtp # <<>>
  /\ StatusIn(credRecv[1]) = W_mfa_required

\* C13: S_FALSE ("MFA needed, OTP not yet provided") is returned only when
\* the OTP buffer is empty; with an OTP held when the preauth answer says
\* "mfa_required" the same invocation hands the submit_mfa request to the
\* pipe and, unless the pipe fails, reads its answer.
C13_SubmitsInSameInvocation ==
  /\ (CheckDone /\ hrMfa = "S_FALSE") => wszOtp = <<>>
  /\ (OtpHeldAtChallenge /\ credIo # "fault")
       => /\ hrMfa # "S_FALSE"
          /\ credIo = "send" \/ Len(credSent) = 2
          /\ credIo \in {"send", "read"} \/ Len(credRecv) = 2

C13_Witness ==
  /\ OtpHeldAtChallenge /\ Len(credSent) = 2 /\ Len(credRecv) = 2
  /\ hrMfa = "E_ACCESSDENIED"

C15_BusyRetriedUntilTimeout ==
  /\ (dcPc = "done" /\ dcIo = "busy") => elapsed >= dcTimeoutMs
  /\ (credPc = "idle" /\ credIo = "busy") => elapsed >= MFASRV_PIPE_TIMEOUT_MS

\* C16: a fault inside QueryDcAgent, SendAndReceive, ConnectToPipe,
\* _PerformMfaCheck or Connect never propagates to the host; the call returns
\* its fail-open default (Allow, E_FAIL, S_OK), also when logging the fault
\* itself faults.
C16_FaultsFailOpen ==
  /\ dcIo # "propagated"
  /\ (dcPc = "done" /\ dcIo = "fault") => dcDecision = MFASRV_DECISION_ALLOW
  /\ (CheckDone /\ credIo = "fault") => hrMfa = "E_FAIL"
  /\ (caller = "Connect" /\ credPc = "idle" /\ credIo = "fault" /\ hrMfa = "none")
       => hrRet = "S_OK"

C16_Witness ==
  /\ dcPc = "done"
  /\ dcIo = "fault"
  /\ dcPipe = "closed"
  /\ dcSent # <<>>
  /\ dcDecision = MFASRV_DECISION_ALLOW

\* C17: MfaSrv_LogonUserEx2 returns STATUS_LOGON_FAILURE, with the sub-status
\* STATUS_ACCOUNT_RESTRICTION where the caller passed a place for it, exactly
\* when QueryDcAgent returned Deny; for every other decision, and when no
\* user name could be extracted, it returns STATUS_NOT_IMPLEMENTED. It
\* returns in the step in which its one query returns.
C17_LogonStatus ==
  /\ ntStatus = "pending" => dcPc \in {"connect", "send", "recv"}
  /\ ntStatus = "STATUS_LOGON_FAILURE" =>
       /\ dcPc = "done"
       /\ dcDecision = MFASRV_DECISION_DENY
       /\ subStatus \in {"STATUS_ACCOUNT_RESTRICTION", "NULL"}
  /\ ntStatus = "STATUS_NOT_IMPLEMENTED" =>
       /\ dcPc = "idle" \/ (dcPc = "done" /\ dcDecision # MFASRV_DECISION_DENY)
       /\ subStatus \in {"unset", "NULL"}

C17_Witness ==
  /\ ntStatus = "STATUS_LOGON_FAILURE"
  /\ subStatus = "STATUS_ACCOUNT_RESTRICTION"
  /\ dcPc = "done"
  /\ dcDecision = MFASRV_DECISION_DENY
  /\ dcIo = "ok"

\* C18: whatever the peer answers and whatever fails, the value QueryDcAgent
\* returns is one of 0 (Allow), 1 (RequireMfa), 2 (Deny), 3 (Pending).
C18_DecisionClosed ==
  dcPc = "done" =>
    dcDecision \in {MFASRV_DECISION_ALLOW, MFASRV_DECISION_REQUIRE_MFA,
                    MFASRV_DECISION_DENY, MFASRV_DECISION_PENDING}

C18_Witness ==
  /\ dcPc = "done"
  /\ dcIo = "ok"
  /\ dcResponse = DecisionMsg(<<NUL, "7">>)
  /\ dcDecision = MFASRV_DECISION_ALLOW

\* C19: for every non-empty string v over an alphabet with the quote, the
\* backslash, newline, carriage return and tab, writing v with
\* JsonAppendEscaped and reading the field back with JsonGetString reports
\* the field as found and yields exactly v.
C19_RoundTrip ==
  codec.pc = "decoded" => (codec.ret /\ codec.out = codec.value)

C19_Witness ==
  /\ codec.pc = "decoded"
  /\ codec.value = <<QUOTE, BSLASH, LF>>
  /\ codec.json = FieldMsg(K_challengeId, <<>>, <<BSLASH, QUOTE, BSLASH, BSLASH, BSLASH, "n">>)
  /\ codec.out = codec.value

\* C20: JsonGetString reports not-found only when the message contains no
\* match for the key; a key present with an empty value is found.
C20_EmptyIsFound ==
  codec.pc \in {"decoded", "scanned"} => (codec.ret <=> KeyOccurs(codec.json, codec.key))

\* C21: a partial write is a send failure in both clients: a response is
\* read only after a write that put the whole request on the pipe
\* (SendAndReceive, MfaPipeSend).
C21_PartialWriteIsFailure ==
  /\ dcPc = "recv" => dcSent = DcQueryBuffer.buf
  /\ (dcPc = "done" /\ dcIo \in {"ok", "read"}) => dcSent = DcQueryBuffer.buf
  /\ credPc = "preauthRead" =>
       credSent = <<Message(BuildPreauthJson(wszUsername, ComputerName))>>
  /\ credPc = "submitRead" =>
       /\ Len(credSent) = 2
       /\ credSent[2] = Message(BuildSubmitJson(szChallengeId, wszOtp))

\* C22: each receive yields the bytes of exactly one message of the peer,
\* whatever its length: the k-th answer MfaPipeRead hands to
\* _PerformMfaCheck is the k-th message the peer wrote, and the submit_mfa
\* answer holds no bytes of the preauth answer.
C22_OneMessagePerReceive ==
  \A k \in 1..Len(credRecv) : k <= Len(credPeer) /\ credRecv[k] = credPeer[k]

\* C23: every channel connect returns is in message-delimited read mode: a
\* channel that could not be switched to message mode is closed inside
\* connect, and no request is written on a channel in another mode.
C23_MessageModeOnly ==
  /\ (dcPc = "done" /\ dcIo = "connect") => (dcPipe # "open" /\ dcSent = <<>>)
  /\ credPipe = "open" => credReadMode = "message"
  /\ credSent # <<>> => credReadMode = "message"

\* the order of operations on the channel of the call under way, or of the
\* last one, counting a write as done when WriteFile returned TRUE and an
\* answer as mfa_required when _PerformMfaCheck took it as such
ChannelOrder ==
  /\ dcPc \in {"send", "recv"} => dcPipe = "open"
  /\ dcPipe = "closed" => dcPc = "done"
  /\ (dcPc = "recv" \/ dcResponse # <<>>) => dcSent # <<>>
  /\ dcPc = "send" => (dcSent = <<>> /\ dcResponse = <<>>)
  /\ credPc \in {"preauthSend", "preauthRead", "submitSend", "submitRead"} => credPipe = "open"
  /\ credPipe = "closed" => credPc = "idle"
  /\ Len(credSent) <= 2
  /\ Len(credRecv) <= Len(credSent)
  /\ credPc = "preauthRead" => (Len(credSent) = 1 /\ credRecv = <<>>)
  /\ credPc = "submitRead" => (Len(credSent) = 2 /\ Len(credRecv) = 1)
  /\ Len(credSent) = 2 =>
       (Len(credRecv) >= 1 /\ PreauthStatusKind(StatusIn(credRecv[1])) = "mfa_required")

\* C24: per call the channel is opened once, carries one request/response
\* pair, or two for the OTP step, and is then left alone: the second
\* request is written only after an mfa_required answer to the first was
\* read, every read follows a write that sent the whole request, and
\* nothing is written or read after the close.
C24_ChannelDiscipline ==
  /\ ChannelOrder
  /\ dcPc = "recv" => dcSent = DcQueryBuffer.buf
  /\ credPc = "preauthRead" =>
       credSent = <<Message(BuildPreauthJson(wszUsername, ComputerName))>>
  /\ credPc = "submitRead" =>
       credSent[2] = Message(BuildSubmitJson(szChallengeId, wszOtp))
  /\ Len(credSent) = 2 => StatusIn(credRecv[1]) = W_mfa_required

C26_QueryFieldsDecode ==
  dcPc = "send" =>
    /\ JsonGetString(DcQueryBuffer.buf, K_userName, <<>>, PIPE_BUFFER_SIZE).out = dcUserName
    /\ JsonGetString(DcQueryBuffer.buf, K_domain, <<>>, PIPE_BUFFER_SIZE).out = dcDomain

\* C27: the encoder never overflows its buffer: after any sequence of calls
\* of JsonAppendRaw and JsonAppendEscaped on a buffer of cbBuf >= 1 bytes,
\* started at any 0 <= pos <= cbBuf-1, no byte at index cbBuf or above was
\* written, 0 <= pos <= cbBuf-1, and the byte at index pos is NUL.
C27_AppendInBounds ==
  (codec.pc = "append" /\ codec.appends > 0) =>
    /\ Len(codec.buf) = codec.cbBuf
    /\ codec.pos \in 0..(codec.cbBuf - 1)
    /\ codec.buf[codec.pos + 1] = NUL

C27_Witness ==
  /\ codec.pc = "append"
  /\ codec.appends = 2
  /\ codec.cbBuf = 4
  /\ codec.pos = 3
  /\ codec.buf = <<BSLASH, QUOTE, "a", NUL>>

\* C28: a request that did not fit its buffer is never sent: QueryDcAgent
\* connects and writes only when the whole query fits 4096 bytes and
\* otherwise returns Allow, and no message _PerformMfaCheck writes, not even
\* the longest it can build, lost a character to the 2048-byte buffer.
C28_TruncatedNeverSent ==
  /\ (dcPc \in {"connect", "send", "recv"} \/ dcSent # <<>> \/ dcPipe # "none") =>
       Len(QueryText(dcUserName, dcDomain, <<>>, <<>>, PROTO_AUTH_KERBEROS)) <= PIPE_BUFFER_SIZE - 1
  /\ (dcPc = "done" /\ dcIo = "build") => dcDecision = MFASRV_DECISION_ALLOW
  /\ \A k \in 1..Len(credSent) : Len(credSent[k]) < CB_szJson - 3
  /\ LongestPreauthJson.pos < CB_szJson - 3
  /\ LongestSubmitJson.pos < CB_szJson - 3

C28_Witness ==
  /\ dcPc = "done"
  /\ dcIo = "build"
  /\ dcUserName = DcLongUserName
  /\ dcDecision = MFASRV_DECISION_ALLOW
  /\ dcPipe = "none"
  /\ dcSent = <<>>

\* C29: the receive buffer is terminated within its bound: what MfaPipeRead
\* and SendAndReceive store is at most size-1 bytes (the terminator follows
\* them inside the buffer), and a message longer than the buffer is never
\* taken as a complete, successfully received message.
C29_ReceiveWithinBound ==
  /\ \A k \in 1..Len(credRecv) : Len(credRecv[k]) <= CB_szResponse - 1
  /\ Len(dcResponse) <= PIPE_BUFFER_SIZE - 1
  /\ credRecv # <<>> => Len(credPeer[1]) <= CB_szResponse - 1

\* C30: JsonGetString accepts both spacing variants after the colon: what it
\* returns for "key": "value" is what it returns for "key":"value", for
\* every key and value.
C30_SpacingVariants ==
  codec.pc = "scanned" =>
    \A v \in CodecFieldValues :
      codec.json = FieldMsg(codec.key, <<" ">>, v) =>
        JsonGetString(FieldMsg(codec.key, <<>>, v), codec.key, <<>>, CB_szChallengeId)
          = [ret |-> codec.ret, out |-> codec.out]

\* C31: when a value does not fit, JsonAppendEscaped stops at the first
\* character that does not fit: the bytes one call appends are a prefix of
\* the full escaped encoding of its value.
C31_AppendsPrefix ==
  (codec.pc = "append" /\ codec.op = "escaped") =>
    LET full == Message(JsonAppendEscaped(EmptyBuf, CB_szJson, codec.value))
        added == SubSeq(codec.buf, codec.from + 1, codec.pos)
    IN /\ Len(added) <= Len(full)
       /\ added = SubSeq(full, 1, Len(added))

\* C32: MfaPipeConnect returns S_OK only together with an open handle, and
\* on every other outcome E_FAIL with *phPipe = INVALID_HANDLE_VALUE.
C32_OkOrEFail ==
  hrConnect # "none" =>
    \/ hrConnect = "S_OK" /\ credPipe \in {"open", "closed"}
    \/ hrConnect = "E_FAIL" /\ credPipe = "none"

\* C33: while a challenge is outstanding and the peer is reachable the
\* credential is not released: when the peer answers preauth with
\* mfa_required and the OTP submit with mfa_required again, the attempt stays
\* in Required and GetSerialization does not end with
\* CPGSR_RETURN_CREDENTIAL_FINISHED.
C33_NotReleasedWhileRequired ==
  (/\ SerializationDone
   /\ Len(credRecv) = 2
   /\ credPeer = credRecv
   /\ StatusIn(credRecv[1]) = W_mfa_required
   /\ StatusIn(credRecv[2]) = W_mfa_required)
    => /\ bMfaRequired
       /\ ~bMfaCompleted
       /\ cpgsr # "CPGSR_RETURN_CREDENTIAL_FINISHED"

\* C34: MfaSrv_LogonUserEx2 never reports that it authenticated the user
\* itself: on every path, a fault caught by its boundary wrapper included,
\* it returns STATUS_LOGON_FAILURE or STATUS_NOT_IMPLEMENTED.
C34_NeverSuccess ==
  ntStatus \in {"none", "pending", "STATUS_LOGON_FAILURE", "STATUS_NOT_IMPLEMENTED"}

\* C35: in every state of a credential required = TRUE implies a non-empty
\* stored challenge identifier, and a submit_mfa request never carries an
\* empty challengeId.
C35_RequiredHasChallenge ==
  /\ bMfaRequired => szChallengeId # <<>>
  /\ Len(credSent) = 2 => credSent[2] # Message(BuildSubmitJson(<<>>, wszOtp))

\* C36: Connect and GetSerialization give the same verdict for the same result
\* of _PerformMfaCheck: Connect returns E_ACCESSDENIED exactly when
\* GetSerialization would end with CPGSR_NO_CREDENTIAL_FINISHED, that is
\* exactly when the check returned E_ACCESSDENIED; for S_OK, S_FALSE and E_FAIL
\* Connect returns S_OK.
C36_SameVerdict ==
  CheckDone =>
    LET denial(packOk) ==
          GetSerializationTail(hrMfa, bMfaRequired, bMfaCompleted, packOk).cpgsr
            = "CPGSR_NO_CREDENTIAL_FINISHED"
    IN /\ \A packOk \in BOOLEAN :
            /\ (ConnectTail(hrMfa) = "E_ACCESSDENIED") <=> denial(packOk)
            /\ denial(packOk) <=> (hrMfa = "E_ACCESSDENIED")
       /\ hrMfa \in {"S_OK", "S_FALSE", "E_FAIL"} => ConnectTail(hrMfa) = "S_OK"
       /\ caller = "Connect" =>
            /\ hrRet = ConnectTail(hrMfa)
            /\ (hrRet = "E_ACCESSDENIED") <=> (hrMfa = "E_ACCESSDENIED")
       /\ caller = "GetSerialization" =>
            ((cpgsr = "CPGSR_NO_CREDENTIAL_FINISHED") <=> (ConnectTail(hrMfa) = "E_ACCESSDENIED"))

\* Connect has returned E_ACCESSDENIED for a check that ended in a denial
C36_Witness ==
  /\ CheckDone /\ caller = "Connect"
  /\ hrMfa = "E_ACCESSDENIED" /\ hrRet = "E_ACCESSDENIED"
  /\ credRecv # <<>> /\ StatusIn(credRecv[Len(credRecv)]) = W_denied

\* C37: when no user name can be extracted from the primary credentials, a
\* call of MfaSrv_LogonUserEx2 that returns through its own return statements
\* returns STATUS_NOT_IMPLEMENTED without consulting the decision service: no
\* pipe is opened, nothing is sent or read, and SubStatus is left as it was.
C37_NoUserNameNoQuery ==
  (ntStatus \notin {"none", "STATUS_SUCCESS", "propagated"} /\ dcUserName = <<>>) =>
    /\ ntStatus = "STATUS_NOT_IMPLEMENTED"
    /\ dcPc = "idle"
    /\ dcPipe = "none"
    /\ dcIo = "none"
    /\ dcSent = <<>>
    /\ dcResponse = <<>>
    /\ dcDecision = -1
    /\ subStatus \in {"unset", "NULL"}

\* a logon without a user name, with a domain and a place for the sub-status,
\* has been passed on
C37_Witness ==
  /\ ntStatus = "STATUS_NOT_IMPLEMENTED"
  /\ dcUserName = <<>> /\ dcDomain = <<"C">>
  /\ dcPc = "idle" /\ dcPipe = "none" /\ dcSent = <<>>
  /\ subStatus = "unset"

\* C38: JsonGetString returns the value at the first occurrence of the key:
\* when the key occurs twice in the message, in either spacing variant, the
\* value that follows the leftmost occurrence is the one returned.
C38_LeftmostValue ==
  \A s1 \in CodecSeparators, s2 \in CodecSeparators,
     v1 \in CodecRepeatedValues, v2 \in CodecRepeatedValues :
    (codec.pc = "scanned" /\ codec.json = TwoFieldMsg(codec.key, s1, v1, s2, v2)) =>
      (codec.ret /\ codec.out = v1)

====
